---- MODULE Spec2Model ----
(***************************************************************************)
(* One conversion request of html-to-excel-converter, for each of the six  *)
(* implementations of the worker bridge found in the repository:           *)
(*   idxBuffer   src/src/index.js        convertToBuffer                   *)
(*   idxConvert  src/src/index.js        convert (html, outputPath)        *)
(*   p2Convert   src/unnamed/part_002    convert (html)                    *)
(*   p1aExcel    src/unnamed/part_001    convertHtmlToExcel, lines 83-156  *)
(*   p1bExcel    src/unnamed/part_001    convertHtmlToExcel, lines 242-356 *)
(*   baseRun     src/unnamed/part_000    BaseConverter._runPythonScript    *)
(* The worker (a Python process) and the operating system are the          *)
(* environment: the worker writes lines to its two streams, may write the  *)
(* result file, exits, blocks, or is killed.  Every handler of the host    *)
(* runs to completion (one JavaScript callback = one action).              *)
(*                                                                         *)
(* Spec follows one request, from the call to its outcome, on a converter  *)
(* that was constructed on a machine where the interpreters run.  LifeSpec *)
(* follows what comes before: the install scripts (scripts/postinstall.js, *)
(* part_003, part_004), the constructor, the runtime resolver of part_001, *)
(* and the start of a request with an html of every size; a request whose  *)
(* spawn fails is followed to its rejection and to the next call. PairSpec *)
(* follows two calls made on one converter before either has settled.      *)
(* FairSpec is Spec with the scheduling of the event loop, for what must   *)
(* eventually happen.  InstallSpec follows the install scripts alone, run  *)
(* any number of times in any environment.                                 *)
(***************************************************************************)
EXTENDS Integers, Sequences, FiniteSets, TLC

\* Bounds of the model: how many stdout lines and stderr chunks the worker writes.
MaxLines == 2
MaxErr == 1
\* The largest html, in the units the transfer threshold is counted in.
MaxHtml == 2

\* options.maxChunkSize as the caller set it, in the units html is sized in,
\* and options.maxBuffer, in captured lines and chunks.  index.js stores both.
maxChunkSize == 2
maxBuffer == 1

Variants == {"idxBuffer", "idxConvert", "p2Convert", "p1aExcel", "p1bExcel", "baseRun"}
\* The variants built on python-shell (message / stderr / end callbacks).
EndVariants == {"idxBuffer", "idxConvert", "p2Convert"}
\* The variants that create the input .html temp file.
InputFileVariants == {"idxConvert", "p2Convert"}
\* The variants whose result is a file the worker writes.
OutFileVariants == {"idxConvert", "p1aExcel", "p1bExcel"}
\* The variants whose result file is a temp file owned by the request.
TempOutVariants == {"p1aExcel", "p1bExcel"}
\* The variants that arm a deadline timer.
TimerVariants == {"p1aExcel", "p1bExcel"}

(***************************************************************************)
(* Worker output.  A stdout line is described by what JSON.parse and the   *)
(* handlers can observe of it:                                             *)
(*   t        "text" (not JSON), "blank" (empty / whitespace), "object"    *)
(*   success  the value of the success member: "undef", "true", "false"    *)
(*   error    the error member, "" when absent                             *)
(*   data     the data member, base64 text as a sequence of sextets,       *)
(*            << >> when absent                                            *)
(*   spaced   whether the serializer wrote a space after the colon         *)
(***************************************************************************)
MkLine(t, s, e, d, sp) == [t |-> t, success |-> s, error |-> e, data |-> d, spaced |-> sp]

\* "QUJD", the base64 text of the bytes 65 66 67.
SampleData == <<16, 20, 9, 3>>

LText == MkLine("text", "undef", "", <<>>, TRUE)
LBlank == MkLine("blank", "undef", "", <<>>, TRUE)
LObjNone == MkLine("object", "undef", "", <<>>, TRUE)
LOkData == MkLine("object", "true", "", SampleData, TRUE)
LOkTight == MkLine("object", "true", "", <<>>, FALSE)
LFailX == MkLine("object", "false", "x", <<>>, TRUE)
LFail == MkLine("object", "false", "", <<>>, TRUE)
LErrY == MkLine("object", "undef", "y", <<>>, TRUE)

Lines == {LText, LBlank, LObjNone, LOkData, LOkTight, LFailX, LFail, LErrY}
NoLine == MkLine("none", "undef", "", <<>>, TRUE)

\* The lines a worker of variant v is given to write: one line of each kind the
\* variant's handlers tell apart.  part_001 (second) only looks for the text
\* '"success": true' in a chunk; part_001 (first) has every line parsed by
\* python-shell and looks at error and success (a blank line fails to parse as
\* any other text does; success false without error is passed over as an
\* object without either is).  index.js and part_002 skip a blank line as they
\* skip a line that does not parse; part_000 tells the two apart.
LinesOf(v) ==
    IF v = "p1bExcel" THEN {LText, LOkData, LOkTight}
    ELSE IF v = "p1aExcel" THEN {LText, LObjNone, LOkData, LFailX, LErrY}
    ELSE IF v = "baseRun" THEN Lines
    ELSE Lines \ {LBlank}

\* stderr chunks: free text, or a JSON object {"error": "z"}.
ErrChunks == {"text", "json"}

(***************************************************************************)
(* Outcome of the request: the state of the promise returned to the caller *)
(***************************************************************************)
NoVal == [form |-> "none", rec |-> NoLine, data |-> <<>>]
Pending == [st |-> "pending", kind |-> "none", msg |-> "", diag |-> <<>>, val |-> NoVal]
Rejected(kind, msg, diag) == [st |-> "rejected", kind |-> kind, msg |-> msg, diag |-> diag, val |-> NoVal]
Resolved(val) == [st |-> "resolved", kind |-> "none", msg |-> "", diag |-> <<>>, val |-> val]

\* resolve(lastValidJson): the parsed record itself.
RecordVal(l) == [form |-> "record", rec |-> l, data |-> l.data]
\* resolve(lastValidJson.data): the data member, undefined when absent.
DataVal(l) == [form |-> IF l.data = <<>> THEN "undefined" ELSE "text", rec |-> NoLine, data |-> l.data]
\* resolve(buffer): the bytes read from the result file.
BufferVal == [form |-> "filebytes", rec |-> NoLine, data |-> <<>>]

(***************************************************************************)
(* The machine: platforms, interpreters, libraries                         *)
(***************************************************************************)
\* darwin has the command list of linux and is left out.
Platforms == {"linux", "win32"}

SystemCommands == {"python3", "python", "py"}

\* A virtual environment is named by where it lives: the package root
\* (<root>/venv), the src directory (<root>/src/venv), or a path of the caller's.
Venvs == {"rootVenv", "srcVenv", "custom"}

\* A runtime is the system interpreter or a virtual environment; a handle is
\* what the resolver returns: a system command or the interpreter of an environment.
Runtimes == {"system"} \cup Venvs
Handles == SystemCommands \cup Venvs
NotFound == "notFound"

\* part_001 checkPythonDependencies: the libraries it probes, in order.
Deps == <<"bs4", "pandas", "openpyxl", "cssutils">>

\* postinstall.js: the libraries it probes in an existing environment.
PostinstallDeps == <<"bs4", "xlsxwriter", "pandas", "cssutils">>

\* What `pip install -r requirements.txt` provides: every library the worker needs.
Requirements == {"bs4", "pandas", "openpyxl", "cssutils", "xlsxwriter"}

\* The library sets the system interpreter starts with.
LibSets == {Requirements, Requirements \ {"pandas", "cssutils"}, {}}

\* The arguments of a call, by what the checks at the head of the methods see.
HtmlKinds == {"undefined", "empty", "number", "text"}
PathKinds == {"undefined", "empty", "number", "path"}

NoInput == [html |-> "none", size |-> 0, outputPath |-> "none"]

\* html of a given kind; only text has a size.
HtmlArgs == {[html |-> k, size |-> 0] : k \in HtmlKinds \ {"text"}}
            \cup {[html |-> "text", size |-> n] : n \in 1..MaxHtml}

\* The arguments a caller can pass to the method of variant v.
Inputs(v) ==
    {[html |-> h.html, size |-> h.size, outputPath |-> o] :
        h \in HtmlArgs, o \in IF v = "idxConvert" THEN PathKinds ELSE {"none"}}

\* The arguments followed through a whole request: one call with an html text
\* and a path and, for the methods that check their arguments, every call with
\* another html or another outputPath.
RequestInputs(v) ==
    {a \in Inputs(v) :
        \/ a.html = "text" /\ a.size = 1 /\ a.outputPath \in {"none", "path"}
        \/ v \in EndVariants /\ (a.html # "text" \/ (a.size = 1 /\ a.outputPath # "path"))}

\* The arguments followed from the installation on: an html text of every size.
SizedInputs(v) ==
    {a \in Inputs(v) : a.html = "text" /\ a.outputPath \in {"none", "path"}}

NoInstall ==
    [script |-> "none", result |-> "none", cmd |-> "none", made |-> "none", steps |-> {}]

\* What the install scripts look at besides the interpreters: three names of
\* process.env ("" when unset or empty) and whether the machine is a Docker container.
EnvValues == {"", "true", "1"}
NodeEnvs == {"production", "development"}
InstallEnvs ==
    [SKIP_PYTHON_INSTALL : EnvValues, FORCE_PYTHON_INSTALL : EnvValues,
     NODE_ENV : NodeEnvs, docker : BOOLEAN]
\* Where no install script reads them.
NoInstallEnv == <<>>
NoInst == [st |-> "none", venvPath |-> "none", err |-> "none", missing |-> <<>>]

\* The names of process.env the code sets for the worker.
EnvNames == {"PATH", "PYTHONPATH", "PYTHONUNBUFFERED", "VIRTUAL_ENV"}

\* process.env when the host starts; PATH is the list of its directories.
InitialEnv ==
    [n \in EnvNames |-> IF n = "PATH" THEN <<"sys">> ELSE <<>>]

NoEnv == [n \in EnvNames |-> <<"unset">>]

\* The two calls that run at once.
Requests == {1, 2}

\* The names crypto.randomBytes(n).toString('hex') can give to temp files.
TmpNames == {"n1", "n2", "n3"}

\* What the closure of a call holds: its position, the order of the call, the
\* path it made, the path its worker was given, what the worker read (0 nothing
\* yet, -1 no file, else whose html), wrote and said, what the host has heard,
\* the timer, the kill signal, the files its handlers unlinked and read, and
\* the promise.
NoReq ==
    [st |-> "idle", ord |-> 0, path |-> "none", arg |-> "none", got |-> 0,
     wrote |-> FALSE, said |-> "none", heard |-> "none", timer |-> "none",
     kill |-> FALSE, unlinked |-> {}, readFrom |-> {}, outcome |-> Pending]

VARIABLES
    variant,        \* which implementation serves the request
    pc,             \* "idle" before the call, "active" after it
    worker,         \* "none", "failed" (spawn error), "running", "blocked", "exited"
    exitCode,       \* 0, 1, -2 (spawn failure), -1 (killed by signal: code null)
    outWritten,     \* stdout lines the worker has written (history)
    errWritten,     \* stderr chunks the worker has written (history)
    outPipe,        \* stdout lines written and not yet handled
    errPipe,        \* stderr chunks written and not yet handled
    pythonOutput,   \* pythonOutput / stdout: the lines the host has accumulated
    pythonError,    \* pythonError / stderr / errorOutput
    hasSuccessMessage,
    outcome,        \* the promise
    deliveries,     \* how many outcomes the caller has received
    tempFile,       \* the input .html temp file exists
    outFile,        \* the result file (outputPath) exists
    wroteFile,      \* the worker has written the result file (history)
    timer,          \* "none", "armed", "fired", "cleared"
    killSent,       \* pyshell.terminate() has been called on a live worker
    ended,          \* the end / close callback has run
    errEvent,       \* an 'error' event is waiting to be delivered
    uncaught,       \* an exception escaped a callback: the host process died
    input,          \* the arguments of the call: html, its size, outputPath
    sent,           \* what the worker's stdin was given: "none" or "html"
    releases,       \* how many times the request's resources have been released
    spawns,         \* how many PythonShell / child process objects the request made
    processEnv,     \* process.env of the host
    workerEnv,      \* the environment the worker was spawned with
    platform,       \* os.platform()
    probeOk,        \* the system commands whose `--version` exits cleanly
    venvs,          \* the virtual environments that hold a working interpreter
    libs,           \* the libraries each runtime can import
    envFile,        \* the VENV_PATH of the .env file, "none" without one
    optVenv,        \* options.venvPath given to the constructor, "none" without
    install,        \* the install step that ran, its result, what it provisioned
    inst,           \* the part_001 converter object and what its constructor did
    handles,        \* the results of the last getPythonCommand() calls
    envChanged,     \* the environment changed since the last getPythonCommand()
    reqs,           \* two calls at once: what each call's closure holds (else <<>>)
    tmpdir,         \* two calls at once: os.tmpdir(), whose content each file holds
    failedHandle,   \* the interpreter an earlier call of the converter could not run
    marker,         \* <root>/src/venv/.installation_complete exists
    installEnv      \* what an install script finds in process.env and on the machine

vars == <<variant, pc, worker, exitCode, outWritten, errWritten, outPipe, errPipe,
          pythonOutput, pythonError, hasSuccessMessage, outcome, deliveries,
          tempFile, outFile, wroteFile, timer, killSent, ended, errEvent, uncaught,
          input, sent, releases, spawns, processEnv, workerEnv, platform, probeOk, venvs, libs, envFile, optVenv,
          install, inst, handles, envChanged, reqs, tmpdir, failedHandle, marker,
          installEnv>>

pairVars == <<reqs, tmpdir>>

\* The machine, the installation, the converter object and the other calls: a
\* request leaves them alone.
setupVars == <<platform, probeOk, venvs, libs, envFile, optVenv, install, inst,
               handles, envChanged, pairVars, failedHandle, marker, installEnv>>

workerVars == <<worker, exitCode, outWritten, errWritten, outPipe, errPipe, wroteFile>>

\* A request on a converter that was constructed on a machine where every
\* interpreter the variants use runs and has the libraries.
Init ==
    /\ variant \in Variants
    /\ pc = "idle"
    /\ worker = "none"
    /\ exitCode = 0
    /\ outWritten = <<>>
    /\ errWritten = <<>>
    /\ outPipe = <<>>
    /\ errPipe = <<>>
    /\ pythonOutput = <<>>
    /\ pythonError = <<>>
    /\ hasSuccessMessage = FALSE
    /\ outcome = Pending
    /\ deliveries = 0
    /\ tempFile = FALSE
    /\ outFile = FALSE
    /\ wroteFile = FALSE
    /\ timer = "none"
    /\ killSent = FALSE
    /\ ended = FALSE
    /\ errEvent = FALSE
    /\ uncaught = FALSE
    /\ input = NoInput
    /\ sent = "none"
    /\ releases = 0
    /\ spawns = 0
    /\ processEnv = InitialEnv
    /\ workerEnv = NoEnv
    /\ platform = "linux"
    /\ probeOk = {"python3"}
    /\ venvs = {"srcVenv"}
    /\ libs = [r \in Runtimes |-> IF r \in {"system", "srcVenv"} THEN Requirements ELSE {}]
    /\ envFile = "none"
    /\ optVenv = "none"
    /\ install = NoInstall
    /\ inst = [NoInst EXCEPT !.st = "ok"]
    /\ handles = <<>>
    /\ envChanged = FALSE
    /\ reqs = <<>>
    /\ tmpdir = <<>>
    /\ failedHandle = "none"
    /\ marker = TRUE
    /\ installEnv = NoInstallEnv

(***************************************************************************)
(* The promise: resolve / reject settle it once, later calls are ignored.  *)
(***************************************************************************)
\* A settle that lets a later resolve / reject replace the outcome.
SettleAlways(cur, n, o) == [o |-> o, n |-> n + 1]

Settle(cur, n, o) ==
    IF cur.st = "pending" THEN [o |-> o, n |-> n + 1] ELSE [o |-> cur, n |-> n]

\* A bridge that starts a worker again when a request fails.
RespawnsOnFailure(o) == IF o.st = "rejected" THEN 1 ELSE 0

\* The workers a handler starts when it settles the promise with o: the
\* handlers call resolve / reject and return, none makes a PythonShell or spawns.
Respawns(o) == 0

Deliver(o) ==
    LET r == Settle(outcome, deliveries, o)
    IN  /\ outcome' = r.o
        /\ deliveries' = r.n
        /\ spawns' = spawns + Respawns(o)

NoSettle == UNCHANGED <<outcome, deliveries, spawns>>

Alive == worker \in {"running", "blocked"}

(***************************************************************************)
(* Interpreting the captured stdout                                        *)
(***************************************************************************)
\* JSON.parse(line) succeeds.
ParsesAsJSON(l) == l.t = "object"

\* index.js: trimmedLine non-empty, JSON.parse succeeds,
\* json && (json.success !== undefined || json.error)
IsValidIdx(l) ==
    /\ l.t # "blank"
    /\ ParsesAsJSON(l)
    /\ (l.success # "undef" \/ l.error # "")

\* part_002: JSON.parse(line) succeeds and json.success !== undefined
IsValidP2(l) ==
    /\ ParsesAsJSON(l)
    /\ l.success # "undef"

\* The for loop over the lines: the last line that passes the test, NoLine if none.
RECURSIVE LastValidIdx(_)
LastValidIdx(ls) ==
    IF ls = <<>> THEN NoLine
    ELSE IF IsValidIdx(ls[Len(ls)]) THEN ls[Len(ls)]
    ELSE LastValidIdx(SubSeq(ls, 1, Len(ls) - 1))

RECURSIVE LastValidP2(_)
LastValidP2(ls) ==
    IF ls = <<>> THEN NoLine
    ELSE IF IsValidP2(ls[Len(ls)]) THEN ls[Len(ls)]
    ELSE LastValidP2(SubSeq(ls, 1, Len(ls) - 1))

\* An end callback that resolves with the data member instead of the record.
SelectIdxData(ls, errs) ==
    LET j == LastValidIdx(ls)
    IN  IF j = NoLine THEN Rejected("NoValidJson", "", errs)
        ELSE IF j.error # "" THEN Rejected("Reported", j.error, <<>>)
        ELSE Resolved(DataVal(j))

\* index.js, both methods: the outcome chosen by the end callback when err is not set.
SelectIdx(ls, errs) ==
    LET j == LastValidIdx(ls)
    IN  IF j = NoLine THEN Rejected("NoValidJson", "", errs)
        ELSE IF j.error # "" THEN Rejected("Reported", j.error, <<>>)
        ELSE Resolved(RecordVal(j))

\* part_002: the outcome chosen by the end callback when err is not set.
SelectP2(ls, errs) ==
    LET j == LastValidP2(ls)
    IN  IF j = NoLine
        THEN IF errs # <<>> THEN Rejected("PythonError", "", errs)
             ELSE Rejected("NoValidJson", "", <<>>)
        ELSE IF j.success # "true"
        THEN IF j.error # "" THEN Rejected("Reported", j.error, <<>>)
             ELSE Rejected("Unknown", "", <<>>)
        ELSE Resolved(DataVal(j))

\* part_000: JSON.parse(stdout) of the whole captured text succeeds only when it
\* holds one JSON value, blank lines around it allowed.
RECURSIVE NonBlank(_)
NonBlank(ls) ==
    IF ls = <<>> THEN <<>>
    ELSE IF ls[1].t = "blank" THEN NonBlank(Tail(ls))
    ELSE <<ls[1]>> \o NonBlank(Tail(ls))

SelectBase(ls) ==
    LET nb == NonBlank(ls)
    IN  IF Len(nb) # 1 \/ ~ParsesAsJSON(nb[1]) THEN Rejected("NoValidJson", "", <<>>)
        ELSE IF nb[1].success # "true"
        THEN IF nb[1].error # "" THEN Rejected("Reported", nb[1].error, <<>>)
             ELSE Rejected("Unknown", "", <<>>)
        ELSE Resolved(RecordVal(nb[1]))

\* index.js: reject(new Error(`Python error: ${err.message}\n${pythonError}`))
EndErrIdx(errs) == Rejected("PythonError", "", errs)

\* part_002: the message holds pythonError when there is some, else err.message.
EndErrP2(errs) ==
    IF errs # <<>> THEN Rejected("PythonError", "", errs)
    ELSE Rejected("ScriptError", "", <<>>)

\* part_000: reject(new Error(`Python process exited with code ${code}\n${stderr}`))
CloseErrBase(errs) == Rejected("ExitCode", "", errs)

\* part_001 (second): the close handler's else branch, from errorOutput.
CloseErrP1b(errs) ==
    IF errs = <<>> THEN Rejected("NoMessage", "", <<>>)
    ELSE IF Len(errs) = 1 /\ errs[1] = "json" THEN Rejected("Reported", "z", <<>>)
    ELSE Rejected("StderrText", "", errs)

\* part_001 (second): data.includes('"success": true')
IncludesSuccess(l) == l.t = "object" /\ l.success = "true" /\ l.spaced

(***************************************************************************)
(* Resolving the runtime                                                   *)
(***************************************************************************)
\* part_001 getVenvPath: the VENV_PATH of the .env file, null without one.
GetVenvPath == envFile

\* commands[platform] || ['python3', 'python']
Candidates(plat) ==
    IF plat = "win32" THEN <<"python", "py">> ELSE <<"python3", "python">>

\* execSync(`${cmd} --version`) returns: the command runs and exits with 0.
\* For the interpreter of a virtual environment: the environment holds one.
ProbeSucceeds(h, ok, vs) ==
    IF h \in SystemCommands THEN h \in ok ELSE h \in vs

\* The for loop over the candidates: the first one whose probe succeeds.
RECURSIVE FirstProbed(_, _)
FirstProbed(cmds, ok) ==
    IF cmds = <<>> THEN NotFound
    ELSE IF ProbeSucceeds(Head(cmds), ok, {}) THEN Head(cmds)
    ELSE FirstProbed(Tail(cmds), ok)

\* A resolver that returns another candidate than the one it returned last.
GetPythonCommandRotating(vp, plat, ok) ==
    LET cs == Candidates(plat)
    IN  IF handles # <<>> /\ handles[Len(handles)].h = cs[1] THEN cs[2] ELSE cs[1]

\* part_001 getPythonCommand: the interpreter of this.venvPath when there is
\* one, else the first system candidate whose version probe succeeds.
GetPythonCommand(vp, plat, ok) ==
    IF vp # "none" THEN vp ELSE FirstProbed(Candidates(plat), ok)

\* part_003 getPythonCommand: system candidates only.
GetPythonCommandP3(plat, ok) == FirstProbed(Candidates(plat), ok)

\* The runtime whose libraries a handle imports from.
RuntimeOf(h) == IF h \in SystemCommands THEN "system" ELSE h

\* execSync(`${pythonCmd} -c "import ${dep}"`) returns.
Importable(h, d) ==
    /\ h \in Handles
    /\ ProbeSucceeds(h, probeOk, venvs)
    /\ d \in libs[RuntimeOf(h)]

\* A dependency check that stops at the first library it cannot import.
RECURSIVE MissingDepsFirst(_, _)
MissingDepsFirst(deps, h) ==
    IF deps = <<>> THEN <<>>
    ELSE IF Importable(h, Head(deps)) THEN MissingDepsFirst(Tail(deps), h)
    ELSE <<Head(deps)>>

\* dependencies.forEach(dep => { try { import } catch { missingDeps.push(dep) } })
RECURSIVE MissingDeps(_, _)
MissingDeps(deps, h) ==
    IF deps = <<>> THEN <<>>
    ELSE (IF Importable(h, Head(deps)) THEN <<>> ELSE <<Head(deps)>>)
         \o MissingDeps(Tail(deps), h)

\* The interpreter a request of the variant hands to the spawn: index.js and
\* part_002 use this.pythonPath (<dirname>/venv/bin/python3 or, on win32,
\* Scripts/python.exe), part_001 calls this.getPythonCommand(), part_000 has
\* 'python3' written in.
PythonPath ==
    CASE variant \in EndVariants -> "srcVenv"
      [] variant \in {"p1aExcel", "p1bExcel"} -> GetPythonCommand(inst.venvPath, platform, probeOk)
      [] OTHER -> "python3"

\* A spawn can start a process only from an interpreter that runs.
SpawnPossible(sp) ==
    sp = "ok" => (PythonPath \in Handles /\ ProbeSucceeds(PythonPath, probeOk, venvs))

(***************************************************************************)
(* The call: validation, temp file, spawn, handlers, timer                 *)
(***************************************************************************)
SpawnResults == {"ok", "throw", "errorEvent"}

\* !x is false
Truthy(k) == k \notin {"undefined", "empty"}

\* typeof x
TypeOf(k) ==
    IF k \in {"empty", "text", "path"} THEN "string"
    ELSE IF k = "number" THEN "number"
    ELSE "undefined"

\* A check that leaves the typeof test out.
NonEmptyStringTruthy(k) == Truthy(k)

\* not (!x || typeof x !== 'string')
NonEmptyString(k) == Truthy(k) /\ TypeOf(k) = "string"

\* index.js convertToBuffer, part_002 convert: the html check; index.js convert:
\* the html check, then the outputPath check.
ArgsOk(a) ==
    /\ NonEmptyString(a.html)
    /\ (variant = "idxConvert" => NonEmptyString(a.outputPath))

\* What the worker's stdin is given: pyshell.send / stdin.write of the JSON that
\* holds the html, or nothing when the html went to a temp file named in args.
Stdin == IF variant \in InputFileVariants THEN "none" ELSE "html"

\* One run of a request's release code (unlink of its files, terminate, clearTimeout).
Released == releases' = releases + 1

\* fs.unlinkSync of a file that exists or not, working or throwing: whether the
\* file exists afterwards.
Unlink(exists, ok) == exists /\ ~ok

\* pyshell.terminate(): SIGTERM is on its way to a live worker unless the call
\* failed.
Terminate(ok) == killSent \/ (Alive /\ ok)

\* A release step that lets its failure out to the code after it.
SwallowedNot(ok, o) == IF ok THEN o ELSE Rejected("ReleaseError", "", <<>>)

\* try { release } catch { }: what the handler goes on to settle with after a
\* release step that worked (ok) or threw.
Swallowed(ok, o) == o

\* part_001 (second), cleanup(): disarm the timer, delete the result file if it
\* exists, terminate the worker.  newTimer is the timer's state afterwards.
Cleanup(newTimer, unlinkOk, termOk) ==
    /\ timer' = newTimer
    /\ outFile' = Unlink(outFile, unlinkOk)
    /\ killSent' = Terminate(termOk)
    /\ Released

\* A cleanup() that leaves the timer armed.
DisarmedNot == timer

\* clearTimeout(timeout); timeout = null
Disarmed == IF timer = "armed" THEN "cleared" ELSE timer

\* Whether a run of cleanup() got through without a throw inside it: the unlink
\* is tried on a file that exists, the terminate on a worker that is there.
ReleaseOk(unlinkOk, termOk) == (outFile => unlinkOk) /\ (worker # "none" => termOk)

\* { ...env, k: v, ... }: a new object with env's entries and the overrides.
Spread(env, over) ==
    [n \in DOMAIN env |-> IF n \in DOMAIN over THEN over[n] ELSE env[n]]

\* A host that writes the worker's overrides into process.env itself.
EnvAfterSpreadAssigned(env, over) == Spread(env, over)

\* process.env after { ...process.env, k: v } was built from it: the spread
\* reads it, nothing assigns to it.
EnvAfterSpread(env, over) == env

\* part_001: VIRTUAL_ENV: this.venvPath and
\* PATH: `${path.dirname(pythonCmd)}${path.delimiter}${process.env.PATH}`
VenvOverrides(h) ==
    [n \in {"VIRTUAL_ENV", "PATH"} |->
        IF n = "PATH" THEN <<h>> \o processEnv.PATH ELSE <<inst.venvPath>>]

\* What the env option of the spawn adds to process.env: index.js and part_002
\* PYTHONPATH and PYTHONUNBUFFERED, part_001 VIRTUAL_ENV and PATH; part_000
\* passes no env option and the worker inherits process.env.
WorkerEnvOverrides ==
    IF variant \in EndVariants
    THEN [n \in {"PYTHONPATH", "PYTHONUNBUFFERED"} |->
             IF n = "PYTHONPATH" THEN <<"src/python">> ELSE <<"1">>]
    ELSE IF variant \in {"p1aExcel", "p1bExcel"} THEN VenvOverrides(PythonPath)
    ELSE [n \in {} |-> <<>>]

\* new PythonShell(...) / spawn(...) made a worker object, with the environment
\* built for it; the promise stays pending.
Spawned ==
    /\ UNCHANGED <<outcome, deliveries>>
    /\ spawns' = spawns + 1
    /\ workerEnv' = Spread(processEnv, WorkerEnvOverrides)

\* The html (and outputPath) checks at the head of index.js and part_002.
Validates == variant \in EndVariants

Call(sp, argsOk) ==
    /\ pc = "idle"
    /\ pc' = "active"
    /\ IF Validates /\ ~argsOk
       THEN /\ Deliver(Rejected("Validation", "", <<>>))
            /\ UNCHANGED <<worker, exitCode, errEvent, tempFile, timer, sent, releases,
                           processEnv, workerEnv>>
       ELSE /\ tempFile' = (variant \in InputFileVariants)
            /\ processEnv' = EnvAfterSpread(processEnv, WorkerEnvOverrides)
            /\ CASE sp = "throw" ->
                      /\ Deliver(Rejected("SpawnError", "", <<>>))
                      /\ releases' = IF variant = "p1bExcel" THEN releases + 1 ELSE releases
                      /\ UNCHANGED <<worker, exitCode, errEvent, timer, sent, workerEnv>>
                 [] sp = "errorEvent" ->
                      /\ worker' = "failed"
                      /\ exitCode' = -2
                      /\ errEvent' = TRUE
                      /\ timer' = IF variant \in TimerVariants THEN "armed" ELSE "none"
                      /\ sent' = Stdin
                      /\ Spawned
                      /\ UNCHANGED releases
                 [] OTHER ->
                      /\ worker' = "running"
                      /\ timer' = IF variant \in TimerVariants THEN "armed" ELSE "none"
                      /\ sent' = Stdin
                      /\ UNCHANGED <<exitCode, errEvent, releases>>
                      /\ Spawned
    /\ UNCHANGED <<setupVars, variant, wroteFile, outWritten, errWritten, outPipe, errPipe, pythonOutput,
                   pythonError, hasSuccessMessage, outFile, killSent, ended, uncaught>>

\* A call of the conversion method with arguments a: index.js convertToBuffer /
\* convert, part_002 convert, part_001 convertHtmlToExcel, part_000
\* _runPythonScript.  The method exists on a constructed converter only.
Convert(sp, a) ==
    /\ inst.st = "ok"
    /\ PythonPath # NotFound
    /\ SpawnPossible(sp)
    /\ Call(sp, ArgsOk(a))
    /\ input' = a

\* part_001 convertHtmlToExcel: this.getPythonCommand() throws before the
\* promise is made, and the async method's promise is rejected with it.
ConvertNoRuntime(a) ==
    /\ inst.st = "ok"
    /\ pc = "idle"
    /\ PythonPath = NotFound
    /\ pc' = "active"
    /\ input' = a
    /\ Deliver(Rejected("RuntimeNotFound", "", <<>>))
    /\ UNCHANGED <<setupVars, variant, worker, exitCode, outWritten, errWritten, outPipe,
                   errPipe, pythonOutput, pythonError, hasSuccessMessage, tempFile,
                   outFile, wroteFile, timer, killSent, ended, errEvent, uncaught,
                   sent, releases, processEnv, workerEnv>>

(***************************************************************************)
(* The worker and the operating system                                     *)
(***************************************************************************)
hostVars == <<variant, pc, pythonOutput, pythonError, hasSuccessMessage, outcome,
              deliveries, tempFile, timer, killSent, ended, errEvent, uncaught,
              input, sent, releases, spawns, processEnv, workerEnv, setupVars>>

WorkerOut(l) ==
    /\ worker = "running"
    /\ Len(outWritten) < MaxLines
    /\ outWritten' = Append(outWritten, l)
    /\ outPipe' = Append(outPipe, l)
    /\ UNCHANGED <<worker, exitCode, errWritten, errPipe, outFile, wroteFile>>
    /\ UNCHANGED hostVars

WorkerErr(c) ==
    /\ worker = "running"
    /\ Len(errWritten) < MaxErr
    /\ errWritten' = Append(errWritten, c)
    /\ errPipe' = Append(errPipe, c)
    /\ UNCHANGED <<worker, exitCode, outWritten, outPipe, outFile, wroteFile>>
    /\ UNCHANGED hostVars

\* The worker writes the result file at the path it was given.
WorkerWriteFile ==
    /\ worker = "running"
    /\ variant \in OutFileVariants
    /\ ~wroteFile
    /\ wroteFile' = TRUE
    /\ outFile' = TRUE
    /\ UNCHANGED <<worker, exitCode, outWritten, errWritten, outPipe, errPipe>>
    /\ UNCHANGED hostVars

\* The worker stops making progress without exiting or closing its streams.
WorkerBlock ==
    /\ worker = "running"
    /\ worker' = "blocked"
    /\ UNCHANGED <<exitCode, outWritten, errWritten, outPipe, errPipe, outFile, wroteFile>>
    /\ UNCHANGED hostVars

WorkerExit(code) ==
    /\ worker = "running"
    /\ worker' = "exited"
    /\ exitCode' = code
    /\ UNCHANGED <<outWritten, errWritten, outPipe, errPipe, outFile, wroteFile>>
    /\ UNCHANGED hostVars

\* SIGTERM sent by terminate() ends the worker: exit code null, here -1.
WorkerKilled ==
    /\ killSent
    /\ Alive
    /\ worker' = "exited"
    /\ exitCode' = -1
    /\ UNCHANGED <<outWritten, errWritten, outPipe, errPipe, outFile, wroteFile>>
    /\ UNCHANGED hostVars

(***************************************************************************)
(* The host's callbacks                                                    *)
(***************************************************************************)
HostUp == pc = "active" /\ ~uncaught

\* The end / close callback runs once the worker has exited and both streams
\* have been read to their end.
Drained == outPipe = <<>> /\ errPipe = <<>>

\* python-shell passes err to the end callback when the exit code is a non-zero
\* number (not when the worker was ended by a signal, whose code is null).
EndErr == exitCode \notin {0, -1}

\* index.js and part_002: pyshell.on('message'): pythonOutput += message + '\n'
OnMessage ==
    /\ HostUp
    /\ variant \in EndVariants
    /\ outPipe # <<>>
    /\ pythonOutput' = Append(pythonOutput, Head(outPipe))
    /\ outPipe' = Tail(outPipe)
    /\ NoSettle
    /\ UNCHANGED <<setupVars, processEnv, workerEnv, input, sent, releases, variant, pc, wroteFile, worker, exitCode, outWritten, errWritten, errPipe,
                   pythonError, hasSuccessMessage, tempFile, outFile, timer,
                   killSent, ended, errEvent, uncaught>>

\* part_001 (first), mode 'json': every line is parsed before the handler sees
\* it; the handler settles on the first message with an error or a success.
OnMessageP1a(unlinkOk) ==
    /\ HostUp
    /\ variant = "p1aExcel"
    /\ outPipe # <<>>
    /\ outPipe' = Tail(outPipe)
    /\ LET m == Head(outPipe)
       IN  IF ~ParsesAsJSON(m)
           THEN /\ uncaught' = TRUE
                /\ NoSettle
                /\ UNCHANGED <<outFile, releases>>
           ELSE /\ UNCHANGED uncaught
                /\ IF m.error # ""
                   THEN /\ outFile' = Unlink(outFile, unlinkOk)
                        /\ Released
                        /\ Deliver(Swallowed(outFile => unlinkOk,
                                             Rejected("Reported", m.error, <<>>)))
                   ELSE IF m.success = "true"
                   THEN /\ outFile' = Unlink(outFile, unlinkOk)
                        /\ Released
                        /\ IF outFile
                           THEN Deliver(Swallowed(unlinkOk, Resolved(BufferVal)))
                           ELSE Deliver(Rejected("ReadError", "", <<>>))
                   ELSE /\ NoSettle
                        /\ UNCHANGED <<outFile, releases>>
    /\ UNCHANGED <<setupVars, processEnv, workerEnv, input, sent, variant, pc, wroteFile, worker, exitCode, outWritten, errWritten, errPipe,
                   pythonOutput, pythonError, hasSuccessMessage, tempFile, timer,
                   killSent, ended, errEvent>>

\* part_001 (second): pyshell.stdout.on('data').  stdOutput is only ever
\* appended to and logged, so it is not kept.
OnStdoutP1b ==
    /\ HostUp
    /\ variant = "p1bExcel"
    /\ outPipe # <<>>
    /\ outPipe' = Tail(outPipe)
    /\ hasSuccessMessage' = (hasSuccessMessage \/ IncludesSuccess(Head(outPipe)))
    /\ NoSettle
    /\ UNCHANGED <<setupVars, processEnv, workerEnv, input, sent, releases, variant, pc, wroteFile, worker, exitCode, outWritten, errWritten, errPipe,
                   pythonOutput, pythonError, tempFile, outFile, timer,
                   killSent, ended, errEvent, uncaught>>

\* part_000: pythonProcess.stdout.on('data'): stdout += data.toString()
OnStdoutBase ==
    /\ HostUp
    /\ variant = "baseRun"
    /\ outPipe # <<>>
    /\ pythonOutput' = Append(pythonOutput, Head(outPipe))
    /\ outPipe' = Tail(outPipe)
    /\ NoSettle
    /\ UNCHANGED <<setupVars, processEnv, workerEnv, input, sent, releases, variant, pc, wroteFile, worker, exitCode, outWritten, errWritten, errPipe,
                   pythonError, hasSuccessMessage, tempFile, outFile, timer,
                   killSent, ended, errEvent, uncaught>>

\* A stderr handler that assigns instead of appending to nothing: the text is lost.
CapturedDropped(errs, c) == errs

\* What a stderr handler adds to the captured diagnostic text (every chunk of
\* the model is non-blank, so the stderr.trim() test of index.js passes).
Captured(errs, c) == Append(errs, c)

\* index.js, part_002: pyshell.on('stderr'); part_001 (second):
\* pyshell.stderr.on('data'); part_000: pythonProcess.stderr.on('data').
OnStderr ==
    /\ HostUp
    /\ variant # "p1aExcel"
    /\ errPipe # <<>>
    /\ pythonError' = Captured(pythonError, Head(errPipe))
    /\ errPipe' = Tail(errPipe)
    /\ NoSettle
    /\ UNCHANGED <<setupVars, processEnv, workerEnv, input, sent, releases, variant, pc, wroteFile, worker, exitCode, outWritten, errWritten, outPipe,
                   pythonOutput, hasSuccessMessage, tempFile, outFile, timer,
                   killSent, ended, errEvent, uncaught>>

\* part_001 (first) registers no stderr handler: the stream is read and dropped.
OnStderrP1a ==
    /\ HostUp
    /\ variant = "p1aExcel"
    /\ errPipe # <<>>
    /\ errPipe' = Tail(errPipe)
    /\ NoSettle
    /\ UNCHANGED <<setupVars, processEnv, workerEnv, input, sent, releases, variant, pc, wroteFile, worker, exitCode, outWritten, errWritten, outPipe,
                   pythonOutput, pythonError, hasSuccessMessage, tempFile, outFile,
                   timer, killSent, ended, errEvent, uncaught>>

\* index.js, both methods: what the end callback settles the promise with.
EndOutcomeIdx ==
    IF EndErr THEN EndErrIdx(pythonError) ELSE SelectIdx(pythonOutput, pythonError)

\* part_002: what the end callback settles the promise with.
EndOutcomeP2 ==
    IF EndErr THEN EndErrP2(pythonError) ELSE SelectP2(pythonOutput, pythonError)

\* part_000: what the close handler settles the promise with.
CloseOutcomeBase ==
    IF exitCode # 0 THEN CloseErrBase(pythonError) ELSE SelectBase(pythonOutput)

\* index.js convertToBuffer: pyshell.end(function (err) {...})
OnEndIdxBuffer ==
    /\ HostUp
    /\ variant = "idxBuffer"
    /\ worker = "exited" /\ Drained /\ ~ended
    /\ ended' = TRUE
    /\ Deliver(EndOutcomeIdx)
    /\ UNCHANGED <<setupVars, processEnv, workerEnv, input, sent, releases, variant, pc, wroteFile, worker, exitCode, outWritten, errWritten, outPipe,
                   errPipe, pythonOutput, pythonError, hasSuccessMessage, tempFile,
                   outFile, timer, killSent, errEvent, uncaught>>

\* index.js convert: the end callback unlinks the temp file, then settles.
OnEndIdxConvert(unlinkOk) ==
    /\ HostUp
    /\ variant = "idxConvert"
    /\ worker = "exited" /\ Drained /\ ~ended
    /\ ended' = TRUE
    /\ tempFile' = Unlink(tempFile, unlinkOk)
    /\ Deliver(Swallowed(unlinkOk, EndOutcomeIdx))
    /\ Released
    /\ UNCHANGED <<setupVars, processEnv, workerEnv, input, sent, variant, pc, wroteFile, worker, exitCode, outWritten, errWritten, outPipe,
                   errPipe, pythonOutput, pythonError, hasSuccessMessage,
                   outFile, timer, killSent, errEvent, uncaught>>

\* part_002 convert: the end callback unlinks the temp file, then settles.
OnEndP2(unlinkOk) ==
    /\ HostUp
    /\ variant = "p2Convert"
    /\ worker = "exited" /\ Drained /\ ~ended
    /\ ended' = TRUE
    /\ tempFile' = Unlink(tempFile, unlinkOk)
    /\ Deliver(Swallowed(unlinkOk, EndOutcomeP2))
    /\ Released
    /\ UNCHANGED <<setupVars, processEnv, workerEnv, input, sent, variant, pc, wroteFile, worker, exitCode, outWritten, errWritten, outPipe,
                   errPipe, pythonOutput, pythonError, hasSuccessMessage,
                   outFile, timer, killSent, errEvent, uncaught>>

\* part_001 (first): pyshell.end((err) => { if (err) {...} }): nothing without err.
OnEndP1a(unlinkOk) ==
    /\ HostUp
    /\ variant = "p1aExcel"
    /\ worker = "exited" /\ Drained /\ ~ended
    /\ ended' = TRUE
    /\ IF EndErr
       THEN /\ outFile' = Unlink(outFile, unlinkOk)
            /\ Released
            /\ Deliver(Swallowed(outFile => unlinkOk, Rejected("EndErr", "", <<>>)))
       ELSE /\ NoSettle
            /\ UNCHANGED <<outFile, releases>>
    /\ UNCHANGED <<setupVars, processEnv, workerEnv, input, sent, variant, pc, wroteFile, worker, exitCode, outWritten, errWritten, outPipe,
                   errPipe, pythonOutput, pythonError, hasSuccessMessage, tempFile,
                   timer, killSent, errEvent, uncaught>>

\* part_001 (second): pyshell.on('close')
OnCloseP1b(unlinkOk, termOk) ==
    /\ HostUp
    /\ variant = "p1bExcel"
    /\ worker = "exited" /\ Drained /\ ~ended
    /\ ended' = TRUE
    /\ Cleanup(Disarmed, unlinkOk, termOk)
    /\ IF hasSuccessMessage /\ outFile
       THEN Deliver(Swallowed(ReleaseOk(unlinkOk, termOk), Resolved(BufferVal)))
       ELSE Deliver(Swallowed(ReleaseOk(unlinkOk, termOk), CloseErrP1b(pythonError)))
    /\ UNCHANGED <<setupVars, processEnv, workerEnv, input, sent, variant, pc, wroteFile, worker, exitCode, outWritten, errWritten, outPipe,
                   errPipe, pythonOutput, pythonError, hasSuccessMessage, tempFile,
                   errEvent, uncaught>>

\* part_000: pythonProcess.on('close'); after a failed spawn the close event
\* follows the error event, with a negative code.
OnCloseBase ==
    /\ HostUp
    /\ variant = "baseRun"
    /\ worker \in {"exited", "failed"} /\ ~errEvent /\ Drained /\ ~ended
    /\ ended' = TRUE
    /\ Deliver(CloseOutcomeBase)
    /\ UNCHANGED <<setupVars, processEnv, workerEnv, input, sent, releases, variant, pc, wroteFile, worker, exitCode, outWritten, errWritten, outPipe,
                   errPipe, pythonOutput, pythonError, hasSuccessMessage, tempFile,
                   outFile, timer, killSent, errEvent, uncaught>>

\* index.js, part_002: no 'error' listener is registered, so the event is thrown.
OnErrorUnhandled ==
    /\ HostUp
    /\ variant \in EndVariants
    /\ errEvent
    /\ errEvent' = FALSE
    /\ uncaught' = TRUE
    /\ NoSettle
    /\ UNCHANGED <<setupVars, processEnv, workerEnv, input, sent, releases, variant, pc, wroteFile, worker, exitCode, outWritten, errWritten, outPipe,
                   errPipe, pythonOutput, pythonError, hasSuccessMessage, tempFile,
                   outFile, timer, killSent, ended>>

\* part_001 (first): pyshell.on('error')
OnErrorP1a(unlinkOk) ==
    /\ HostUp
    /\ variant = "p1aExcel"
    /\ errEvent
    /\ errEvent' = FALSE
    /\ outFile' = Unlink(outFile, unlinkOk)
    /\ Deliver(Swallowed(outFile => unlinkOk, Rejected("SpawnError", "", <<>>)))
    /\ Released
    /\ UNCHANGED <<setupVars, processEnv, workerEnv, input, sent, variant, pc, wroteFile, worker, exitCode, outWritten, errWritten, outPipe,
                   errPipe, pythonOutput, pythonError, hasSuccessMessage, tempFile,
                   timer, killSent, ended, uncaught>>

\* part_001 (second): pyshell.on('error')
OnErrorP1b(unlinkOk, termOk) ==
    /\ HostUp
    /\ variant = "p1bExcel"
    /\ errEvent
    /\ errEvent' = FALSE
    /\ Cleanup(Disarmed, unlinkOk, termOk)
    /\ Deliver(Swallowed(ReleaseOk(unlinkOk, termOk), Rejected("SpawnError", "", <<>>)))
    /\ UNCHANGED <<setupVars, processEnv, workerEnv, input, sent, variant, pc, wroteFile, worker, exitCode, outWritten, errWritten, outPipe,
                   errPipe, pythonOutput, pythonError, hasSuccessMessage, tempFile,
                   ended, uncaught>>

\* part_000: pythonProcess.on('error')
OnErrorBase ==
    /\ HostUp
    /\ variant = "baseRun"
    /\ errEvent
    /\ errEvent' = FALSE
    /\ Deliver(Rejected("SpawnError", "", <<>>))
    /\ UNCHANGED <<setupVars, processEnv, workerEnv, input, sent, releases, variant, pc, wroteFile, worker, exitCode, outWritten, errWritten, outPipe,
                   errPipe, pythonOutput, pythonError, hasSuccessMessage, tempFile,
                   outFile, timer, killSent, ended, uncaught>>

\* part_001 (first): setTimeout(..., 30000); the timer is never cleared.
OnTimeoutP1a(unlinkOk) ==
    /\ HostUp
    /\ variant = "p1aExcel"
    /\ timer = "armed"
    /\ timer' = "fired"
    /\ killSent' = Terminate(TRUE)
    /\ outFile' = Unlink(outFile, unlinkOk)
    /\ Deliver(Swallowed(outFile => unlinkOk, Rejected("Timeout", "", <<>>)))
    /\ Released
    /\ UNCHANGED <<setupVars, processEnv, workerEnv, input, sent, variant, pc, wroteFile, worker, exitCode, outWritten, errWritten, outPipe,
                   errPipe, pythonOutput, pythonError, hasSuccessMessage, tempFile,
                   ended, errEvent, uncaught>>

\* part_001 (second): timeout = setTimeout(() => { cleanup(); reject(...) }, 30000)
OnTimeoutP1b(unlinkOk, termOk) ==
    /\ HostUp
    /\ variant = "p1bExcel"
    /\ timer = "armed"
    /\ Cleanup("fired", unlinkOk, termOk)
    /\ Deliver(Swallowed(ReleaseOk(unlinkOk, termOk), Rejected("Timeout", "", <<>>)))
    /\ UNCHANGED <<setupVars, processEnv, workerEnv, input, sent, variant, pc, wroteFile, worker, exitCode, outWritten, errWritten, outPipe,
                   errPipe, pythonOutput, pythonError, hasSuccessMessage, tempFile,
                   ended, errEvent, uncaught>>

Next ==
    \/ \E sp \in SpawnResults, a \in RequestInputs(variant) : Convert(sp, a)
    \/ \E l \in LinesOf(variant) : WorkerOut(l)
    \/ \E c \in ErrChunks : WorkerErr(c)
    \/ WorkerWriteFile
    \/ WorkerBlock
    \/ \E code \in {0, 1} : WorkerExit(code)
    \/ WorkerKilled
    \/ OnMessage
    \/ \E unlinkOk \in BOOLEAN : OnMessageP1a(unlinkOk)
    \/ OnStdoutP1b
    \/ OnStdoutBase
    \/ OnStderr
    \/ OnStderrP1a
    \/ OnEndIdxBuffer
    \/ \E unlinkOk \in BOOLEAN : OnEndIdxConvert(unlinkOk)
    \/ \E unlinkOk \in BOOLEAN : OnEndP2(unlinkOk)
    \/ \E unlinkOk \in BOOLEAN : OnEndP1a(unlinkOk)
    \/ \E unlinkOk, termOk \in BOOLEAN : OnCloseP1b(unlinkOk, termOk)
    \/ OnCloseBase
    \/ OnErrorUnhandled
    \/ \E unlinkOk \in BOOLEAN : OnErrorP1a(unlinkOk)
    \/ \E unlinkOk, termOk \in BOOLEAN : OnErrorP1b(unlinkOk, termOk)
    \/ OnErrorBase
    \/ \E unlinkOk \in BOOLEAN : OnTimeoutP1a(unlinkOk)
    \/ \E unlinkOk, termOk \in BOOLEAN : OnTimeoutP1b(unlinkOk, termOk)

Spec == Init /\ [][Next]_vars

\* One callback of the host: a stream, end / close, error or timer event whose
\* handler the event loop runs.
HostStep ==
    \/ OnMessage
    \/ \E unlinkOk \in BOOLEAN : OnMessageP1a(unlinkOk)
    \/ OnStdoutP1b
    \/ OnStdoutBase
    \/ OnStderr
    \/ OnStderrP1a
    \/ OnEndIdxBuffer
    \/ \E unlinkOk \in BOOLEAN : OnEndIdxConvert(unlinkOk)
    \/ \E unlinkOk \in BOOLEAN : OnEndP2(unlinkOk)
    \/ \E unlinkOk \in BOOLEAN : OnEndP1a(unlinkOk)
    \/ \E unlinkOk, termOk \in BOOLEAN : OnCloseP1b(unlinkOk, termOk)
    \/ OnCloseBase
    \/ OnErrorUnhandled
    \/ \E unlinkOk \in BOOLEAN : OnErrorP1a(unlinkOk)
    \/ \E unlinkOk, termOk \in BOOLEAN : OnErrorP1b(unlinkOk, termOk)
    \/ OnErrorBase
    \/ \E unlinkOk \in BOOLEAN : OnTimeoutP1a(unlinkOk)
    \/ \E unlinkOk, termOk \in BOOLEAN : OnTimeoutP1b(unlinkOk, termOk)

\* The same request under the scheduling the runtime gives: the event loop runs
\* every callback that is ready (a stream event, the end / close event, the
\* timer once armed), and a SIGTERM that was sent ends a worker that is alive.
\* Nothing obliges the worker to write, to exit by itself or to keep running.
FairSpec == Spec /\ WF_vars(HostStep) /\ WF_vars(WorkerKilled)

(***************************************************************************)
(* Installing the package                                                  *)
(***************************************************************************)
requestVars == <<variant, pc, worker, exitCode, outWritten, errWritten, outPipe, errPipe,
                 pythonOutput, pythonError, hasSuccessMessage, outcome, deliveries,
                 tempFile, outFile, wroteFile, timer, killSent, ended, errEvent, uncaught,
                 input, sent, releases, spawns, workerEnv>>

machineVars == <<probeOk, venvs, libs, envFile, marker>>

\* An install step ran on a machine nobody uses the converter on yet; what it
\* changed on the machine is a change of the environment for the resolver.
Installed(rec, newVenvs, newLibs, newEnvFile, newMarker) ==
    /\ pc = "idle"
    /\ inst.st = "none"
    /\ install.script = "none"
    /\ install' = rec
    /\ venvs' = newVenvs
    /\ libs' = newLibs
    /\ envFile' = newEnvFile
    /\ marker' = newMarker
    /\ envChanged' = (envChanged \/ <<newVenvs, newLibs, newEnvFile>> # <<venvs, libs, envFile>>)
    /\ UNCHANGED <<requestVars, pairVars, failedHandle, installEnv, processEnv, platform, probeOk,
                   optVenv, inst, handles>>

\* pip install into runtime r succeeded: r has what was installed.
WithLibs(r, ls) == [libs EXCEPT ![r] = @ \cup ls]

\* A decision that lets FORCE_PYTHON_INSTALL win over SKIP_PYTHON_INSTALL.
ShouldSkipInstallForceFirst(skipFlag, forceFlag, prod, docker) ==
    IF forceFlag THEN FALSE
    ELSE IF skipFlag THEN TRUE
    ELSE prod /\ ~docker

\* postinstall.js shouldSkipInstall
ShouldSkipInstall(skipFlag, forceFlag, prod, docker) ==
    IF skipFlag THEN TRUE
    ELSE IF forceFlag THEN FALSE
    ELSE prod /\ ~docker

\* postinstall.js: python3 if its version probe succeeds, else python, else exit.
PostinstallPython(ok) ==
    IF "python3" \in ok THEN "python3"
    ELSE IF "python" \in ok THEN "python"
    ELSE NotFound

\* postinstall.js checkPythonDependency over its list: nothing is missing.
RECURSIVE AllImportable(_, _)
AllImportable(deps, h) ==
    deps = <<>> \/ (Importable(h, Head(deps)) /\ AllImportable(Tail(deps), h))

\* postinstall.js installPythonDependencies.  venvOk, pipOk: `python -m venv`
\* and `pip install` exit with 0.  A step that ends in process.exit(1) has the
\* result "failed".  steps: what the run tried, of the version probes, the
\* write of .env, the import checks, `-m venv` and `pip install`.
InstallPythonDependencies(skipFlag, forceFlag, prod, docker, venvOk, pipOk) ==
    LET cmd == PostinstallPython(probeOk)
        rec(res, c, made, steps) ==
            [script |-> "postinstall", result |-> res, cmd |-> c, made |-> made,
             steps |-> steps]
        hasVenv == "rootVenv" \in venvs
        local == {"probe", "env"} \cup (IF hasVenv THEN {"deps"} ELSE {"venv"}) \cup {"pip"}
    IN  IF ShouldSkipInstall(skipFlag, forceFlag, prod, docker)
        THEN Installed(rec("ok", "none", "none", {}), venvs, libs, envFile, marker)
        ELSE IF cmd = NotFound
        THEN Installed(rec("failed", cmd, "none", {"probe"}), venvs, libs, envFile, marker)
        ELSE IF docker
        THEN IF pipOk
             THEN Installed(rec("ok", cmd, "system", {"probe", "pip"}), venvs,
                            WithLibs("system", Requirements), envFile, marker)
             ELSE Installed(rec("failed", cmd, "none", {"probe", "pip"}), venvs, libs,
                            envFile, marker)
        ELSE IF hasVenv /\ AllImportable(PostinstallDeps, "rootVenv")
        THEN Installed(rec("ok", cmd, "rootVenv", {"probe", "env", "deps"}), venvs, libs,
                       "rootVenv", marker)
        ELSE IF hasVenv \/ venvOk
        THEN IF pipOk
             THEN Installed(rec("ok", cmd, "rootVenv", local), venvs \cup {"rootVenv"},
                            WithLibs("rootVenv", Requirements), "rootVenv", marker)
             ELSE Installed(rec("failed", cmd, "none", local), venvs \cup {"rootVenv"}, libs,
                            "rootVenv", marker)
        ELSE IF pipOk
        THEN Installed(rec("ok", cmd, "system", local), venvs,
                       WithLibs("system", Requirements), "rootVenv", marker)
        ELSE Installed(rec("failed", cmd, "none", local), venvs, libs, "rootVenv", marker)

\* A setup script that writes the marker as soon as the environment exists.
SetupPythonEnvironmentMarkerFirst(venvOk, pipOk, markOk) ==
    LET cmd == IF platform = "win32" THEN "python" ELSE "python3"
        rec(res, made, steps) ==
            [script |-> "part_004", result |-> res, cmd |-> cmd, made |-> made,
             steps |-> steps]
    IN  IF marker
        THEN Installed(rec("ok", "srcVenv", {}), venvs, libs, envFile, marker)
        ELSE IF cmd \notin probeOk \/ ~venvOk
        THEN Installed(rec("failed", "none", {"venv"}), venvs, libs, envFile, marker)
        ELSE IF ~markOk
        THEN Installed(rec("failed", "none", {"venv", "marker"}), venvs \cup {"srcVenv"},
                       libs, envFile, marker)
        ELSE IF ~pipOk
        THEN Installed(rec("failed", "none", {"venv", "marker", "pip"}),
                       venvs \cup {"srcVenv"}, libs, envFile, TRUE)
        ELSE Installed(rec("ok", "srcVenv", {"venv", "marker", "pip"}),
                       venvs \cup {"srcVenv"}, WithLibs("srcVenv", Requirements), envFile, TRUE)

\* part_004 setupPythonEnvironment.  venvOk, pipOk, markOk: `-m venv`, `pip
\* install -r` and the write of the marker file go through (a step that throws,
\* or a run that is ended before the step, leaves what the steps before it
\* made and nothing else).  steps: what the run tried.
SetupPythonEnvironment(venvOk, pipOk, markOk) ==
    LET cmd == IF platform = "win32" THEN "python" ELSE "python3"
        rec(res, made, steps) ==
            [script |-> "part_004", result |-> res, cmd |-> cmd, made |-> made,
             steps |-> steps]
    IN  IF marker
        THEN Installed(rec("ok", "srcVenv", {}), venvs, libs, envFile, marker)
        ELSE IF cmd \notin probeOk \/ ~venvOk
        THEN Installed(rec("failed", "none", {"venv"}), venvs, libs, envFile, marker)
        ELSE IF ~pipOk
        THEN Installed(rec("failed", "none", {"venv", "pip"}), venvs \cup {"srcVenv"},
                       libs, envFile, marker)
        ELSE IF ~markOk
        THEN Installed(rec("failed", "none", {"venv", "pip", "marker"}),
                       venvs \cup {"srcVenv"}, WithLibs("srcVenv", Requirements), envFile,
                       marker)
        ELSE Installed(rec("ok", "srcVenv", {"venv", "pip", "marker"}),
                       venvs \cup {"srcVenv"}, WithLibs("srcVenv", Requirements), envFile, TRUE)

\* part_003: what its five `pip install` calls provide when all succeed (lxml
\* is not a library the model follows), and when the one for pandas fails,
\* which only prints a warning.
P3Libs(pipOk) ==
    IF pipOk THEN {"bs4", "pandas", "openpyxl", "cssutils"}
    ELSE {"bs4", "openpyxl", "cssutils"}

\* part_003, the script body: getPythonCommand, setupVirtualEnv, write .env.
\* A step that printed an error has the result "failed".
InstallVirtualEnv(venvOk, pipOk) ==
    LET cmd == GetPythonCommandP3(platform, probeOk)
        rec(res, made, steps) ==
            [script |-> "part_003", result |-> res, cmd |-> cmd, made |-> made,
             steps |-> steps]
        create == IF "rootVenv" \in venvs THEN {} ELSE {"venv"}
    IN  IF cmd = NotFound
        THEN Installed(rec("failed", "none", {"probe"}), venvs, libs, envFile, marker)
        ELSE IF "rootVenv" \notin venvs /\ ~venvOk
        THEN Installed(rec("failed", "none", {"probe", "venv"}), venvs, libs, envFile, marker)
        ELSE Installed(rec("ok", "rootVenv", {"probe", "pip", "env"} \cup create),
                       venvs \cup {"rootVenv"}, WithLibs("rootVenv", P3Libs(pipOk)),
                       "rootVenv", marker)

(***************************************************************************)
(* Constructing the converter, resolving its runtime                       *)
(***************************************************************************)
\* The last two results of getPythonCommand(), each with whether the
\* environment changed since the call before it.
Remember(h) ==
    LET e == [h |-> h, changed |-> envChanged]
    IN  /\ handles' = IF Len(handles) < 2 THEN Append(handles, e) ELSE <<handles[2], e>>
        /\ envChanged' = FALSE

\* part_001 constructor: getVenvPath, then checkPythonDependencies, which
\* resolves the runtime and probes every library.  The constructors of index.js,
\* part_002 and part_000 only store paths and options.  opt is options.venvPath
\* as the caller passed it ("none": not passed); no constructor reads it.
Construct(opt) ==
    /\ pc = "idle"
    /\ inst.st = "none"
    /\ optVenv' = opt
    /\ IF variant \in {"p1aExcel", "p1bExcel"}
       THEN LET vp == GetVenvPath
                h == GetPythonCommand(vp, platform, probeOk)
                miss == MissingDeps(Deps, h)
            IN  /\ Remember(h)
                /\ processEnv' = IF h = NotFound THEN processEnv
                                 ELSE EnvAfterSpread(processEnv, VenvOverrides(h))
                /\ inst' = IF h = NotFound
                           THEN [st |-> "threw", venvPath |-> vp, err |-> "RuntimeNotFound",
                                 missing |-> <<>>]
                           ELSE IF miss # <<>>
                           THEN [st |-> "threw", venvPath |-> vp, err |-> "DepsMissing",
                                 missing |-> miss]
                           ELSE [st |-> "ok", venvPath |-> vp, err |-> "none", missing |-> <<>>]
       ELSE /\ inst' = [NoInst EXCEPT !.st = "ok"]
            /\ UNCHANGED <<handles, envChanged, processEnv>>
    /\ UNCHANGED <<requestVars, pairVars, failedHandle, installEnv, platform, machineVars, install>>

\* part_001: a call of getPythonCommand() on the constructed converter.
Resolve ==
    /\ pc = "idle"
    /\ inst.st = "ok"
    /\ variant \in {"p1aExcel", "p1bExcel"}
    /\ Remember(GetPythonCommand(inst.venvPath, platform, probeOk))
    /\ UNCHANGED <<requestVars, pairVars, failedHandle, installEnv, processEnv, platform, machineVars,
                   optVenv, install, inst>>

\* A system interpreter is installed or removed (followed for the variants
\* that launch a system interpreter).
EnvChange(c) ==
    /\ pc = "idle"
    /\ inst.st = "ok"
    /\ variant \notin EndVariants
    /\ probeOk' = IF c \in probeOk THEN probeOk \ {c} ELSE probeOk \cup {c}
    /\ envChanged' = TRUE
    /\ UNCHANGED <<requestVars, pairVars, failedHandle, installEnv, processEnv, platform, venvs, libs,
                   envFile, marker, optVenv, install, inst, handles>>

\* The runtime is altered underneath the host: the virtual environment the
\* converter was constructed with is removed (followed for part_001, which
\* keeps the environment's path in this.venvPath).
VenvRemoved ==
    /\ pc = "idle"
    /\ inst.st = "ok"
    /\ variant \in {"p1aExcel", "p1bExcel"}
    /\ inst.venvPath \in venvs
    /\ venvs' = venvs \ {inst.venvPath}
    /\ marker' = (marker /\ inst.venvPath # "srcVenv")
    /\ envChanged' = TRUE
    /\ UNCHANGED <<requestVars, pairVars, failedHandle, installEnv, processEnv, platform, probeOk, libs,
                   envFile, optVenv, install, inst, handles>>

\* The call was rejected because the interpreter it launched does not run, and
\* the caller makes the next call on the same converter: a new promise, new
\* locals; the object's fields are what they were.  One further call is followed.
NextCall ==
    /\ pc = "active"
    /\ ~uncaught
    /\ variant \in {"p1aExcel", "p1bExcel"}
    /\ worker = "failed" /\ ~errEvent /\ outcome.st = "rejected"
    /\ ~ProbeSucceeds(PythonPath, probeOk, venvs)
    /\ failedHandle = "none"
    /\ failedHandle' = PythonPath
    /\ pc' = "idle"
    /\ worker' = "none"
    /\ exitCode' = 0
    /\ outcome' = Pending
    /\ deliveries' = 0
    /\ timer' = "none"
    /\ input' = NoInput
    /\ sent' = "none"
    /\ releases' = 0
    /\ spawns' = 0
    /\ workerEnv' = NoEnv
    /\ UNCHANGED <<variant, outWritten, errWritten, outPipe, errPipe, pythonOutput,
                   pythonError, hasSuccessMessage, tempFile, outFile, wroteFile, killSent,
                   ended, errEvent, uncaught, processEnv, platform, machineVars, optVenv,
                   install, inst, handles, envChanged, pairVars, installEnv>>

\* A machine before the package is installed and a converter constructed; the
\* caller has an environment of their own that options.venvPath can name.
LifeInit ==
    /\ variant \in Variants
    /\ pc = "idle"
    /\ worker = "none"
    /\ exitCode = 0
    /\ outWritten = <<>>
    /\ errWritten = <<>>
    /\ outPipe = <<>>
    /\ errPipe = <<>>
    /\ pythonOutput = <<>>
    /\ pythonError = <<>>
    /\ hasSuccessMessage = FALSE
    /\ outcome = Pending
    /\ deliveries = 0
    /\ tempFile = FALSE
    /\ outFile = FALSE
    /\ wroteFile = FALSE
    /\ timer = "none"
    /\ killSent = FALSE
    /\ ended = FALSE
    /\ errEvent = FALSE
    /\ uncaught = FALSE
    /\ input = NoInput
    /\ sent = "none"
    /\ releases = 0
    /\ spawns = 0
    /\ processEnv = InitialEnv
    /\ workerEnv = NoEnv
    /\ platform \in Platforms
    /\ probeOk \in SUBSET SystemCommands
    /\ optVenv = "none"
    /\ venvs = {"custom"}
    /\ \E l \in LibSets :
          libs = [r \in Runtimes |-> IF r = "system" THEN l
                                     ELSE IF r = "custom" THEN Requirements ELSE {}]
    /\ envFile = "none"
    /\ install = NoInstall
    /\ inst = NoInst
    /\ handles = <<>>
    /\ envChanged = FALSE
    /\ reqs = <<>>
    /\ tmpdir = <<>>
    /\ failedHandle = "none"
    /\ marker = FALSE
    /\ installEnv = NoInstallEnv

LifeNext ==
    \/ \E skipFlag, forceFlag, prod, docker, venvOk, pipOk \in BOOLEAN :
          InstallPythonDependencies(skipFlag, forceFlag, prod, docker, venvOk, pipOk)
    \/ \E venvOk, pipOk, markOk \in BOOLEAN : SetupPythonEnvironment(venvOk, pipOk, markOk)
    \/ \E venvOk, pipOk \in BOOLEAN : InstallVirtualEnv(venvOk, pipOk)
    \/ \E opt \in {"none", "custom"} : Construct(opt)
    \/ Resolve
    \/ \E c \in SystemCommands : EnvChange(c)
    \/ \E sp \in SpawnResults, a \in SizedInputs(variant) : Convert(sp, a)
    \/ \E a \in SizedInputs(variant) : ConvertNoRuntime(a)
    \/ VenvRemoved
    \/ \E unlinkOk \in BOOLEAN : OnErrorP1a(unlinkOk)
    \/ \E unlinkOk, termOk \in BOOLEAN : OnErrorP1b(unlinkOk, termOk)
    \/ NextCall

\* From the installation of the package to the start of a request, and, when
\* the spawn of the request fails, on to its rejection and to the next call.
LifeSpec == LifeInit /\ [][LifeNext]_vars

(***************************************************************************)
(* Two requests at once on one converter                                   *)
(*                                                                         *)
(* index.js convert and part_001 (second) convertHtmlToExcel, each called  *)
(* twice before either call has settled.  What a call keeps (its path, its *)
(* worker, its flags, its timer) lives in the closure of its promise; what *)
(* the calls share is the directory os.tmpdir().  The spawns work and the  *)
(* workers exit with code 0.                                               *)
(***************************************************************************)
PairVariants == {"idxConvert", "p1bExcel"}

\* const tempFile / const outputPath: the path the handlers of call r use.
\* A converter that keeps the path in one field of the object, which every call
\* overwrites, would use the path of the latest call.
PathOfShared(r) ==
    reqs[CHOOSE q \in Requests : \A p \in Requests : reqs[p].ord <= reqs[q].ord].path

\* const tempFile / const outputPath: the path the handlers of call r use.
PathOf(r) == reqs[r].path

\* The names crypto.randomBytes has produced so far.
NamesDrawn == {reqs[q].path : q \in Requests} \ {"none"}

\* How many calls have been made.
CallsMade == Cardinality({q \in Requests : reqs[q].st # "idle"})

singleVars == <<variant, pc, worker, exitCode, outWritten, errWritten, outPipe, errPipe,
                pythonOutput, pythonError, hasSuccessMessage, outcome, deliveries,
                tempFile, outFile, wroteFile, timer, killSent, ended, errEvent, uncaught,
                input, sent, releases, spawns, processEnv, workerEnv, platform, probeOk,
                venvs, libs, envFile, optVenv, install, inst, handles, envChanged,
                failedHandle, marker, installEnv>>

\* resolve / reject of call r's promise.
PairSettle(q, o) == Settle(q.outcome, 0, o).o

\* index.js convert: the temp file is named with 16 random bytes and written,
\* then the worker is started with the path in args.  part_001 (second): the
\* result path is named with 8 random bytes, the worker is started, the timer
\* armed, and the path sent on stdin.  n is the name drawn.
PairCall(r, n) ==
    /\ reqs[r].st = "idle"
    /\ n \notin NamesDrawn
    /\ reqs' = [reqs EXCEPT ![r] = [@ EXCEPT !.st = "running",
                                             !.ord = CallsMade + 1,
                                             !.path = n,
                                             !.arg = n,
                                             !.timer = IF variant = "p1bExcel"
                                                       THEN "armed" ELSE "none"]]
    /\ tmpdir' = IF variant = "idxConvert" THEN [tmpdir EXCEPT ![n] = r] ELSE tmpdir
    /\ UNCHANGED singleVars

\* The worker of index.js convert opens the input file it was given.
PairWorkerRead(r) ==
    /\ variant = "idxConvert"
    /\ reqs[r].st = "running"
    /\ reqs[r].got = 0
    /\ reqs' = [reqs EXCEPT ![r].got = IF tmpdir[reqs[r].arg] = 0 THEN -1
                                       ELSE tmpdir[reqs[r].arg]]
    /\ UNCHANGED <<tmpdir, singleVars>>

\* The worker of part_001 writes the result file at the path it was given.
PairWorkerWrite(r) ==
    /\ variant = "p1bExcel"
    /\ reqs[r].st = "running"
    /\ ~reqs[r].wrote
    /\ reqs' = [reqs EXCEPT ![r].wrote = TRUE]
    /\ tmpdir' = [tmpdir EXCEPT ![reqs[r].arg] = r]
    /\ UNCHANGED singleVars

\* The worker prints its record: success, or a failure (the only record of a
\* worker that could not read its input).
PairWorkerSay(r, s) ==
    /\ reqs[r].st = "running"
    /\ reqs[r].said = "none"
    /\ variant = "idxConvert" => reqs[r].got # 0 /\ (s = "success" => reqs[r].got > 0)
    /\ reqs' = [reqs EXCEPT ![r].said = s]
    /\ UNCHANGED <<tmpdir, singleVars>>

PairWorkerExit(r) ==
    /\ reqs[r].st = "running"
    /\ reqs[r].said # "none"
    /\ reqs' = [reqs EXCEPT ![r].st = "exited"]
    /\ UNCHANGED <<tmpdir, singleVars>>

PairWorkerKilled(r) ==
    /\ reqs[r].st = "running"
    /\ reqs[r].kill
    /\ reqs' = [reqs EXCEPT ![r].st = "exited"]
    /\ UNCHANGED <<tmpdir, singleVars>>

\* index.js: pyshell.on('message'), pythonOutput += message; part_001 (second):
\* pyshell.stdout.on('data'), hasSuccessMessage.
PairOnStdout(r) ==
    /\ reqs[r].st \in {"running", "exited"}
    /\ reqs[r].said # "none"
    /\ reqs[r].heard = "none"
    /\ reqs' = [reqs EXCEPT ![r].heard = reqs[r].said]
    /\ UNCHANGED <<tmpdir, singleVars>>

\* index.js convert, the end callback of call r: unlink the temp file, then
\* settle with the last record.
PairOnEnd(r) ==
    /\ variant = "idxConvert"
    /\ reqs[r].st = "exited"
    /\ reqs[r].heard = reqs[r].said
    /\ LET p == PathOf(r)
           o == IF reqs[r].heard = "success"
                THEN Resolved([NoVal EXCEPT !.form = "record", !.data = <<reqs[r].got>>])
                ELSE Rejected("Reported", "", <<>>)
       IN  /\ tmpdir' = [tmpdir EXCEPT ![p] = 0]
           /\ reqs' = [reqs EXCEPT ![r] = [@ EXCEPT !.st = "closed",
                                                    !.unlinked = @ \cup {p},
                                                    !.outcome = PairSettle(reqs[r], o)]]
    /\ UNCHANGED singleVars

\* part_001 (second), cleanup() of call r: the record of r afterwards.
PairCleanup(r, newTimer) ==
    [reqs[r] EXCEPT !.timer = newTimer,
                    !.unlinked = IF tmpdir[PathOf(r)] # 0 THEN @ \cup {PathOf(r)} ELSE @,
                    !.kill = (@ \/ reqs[r].st = "running")]

\* part_001 (second), 'close' of call r.
PairOnClose(r) ==
    /\ variant = "p1bExcel"
    /\ reqs[r].st = "exited"
    /\ reqs[r].said = "none" \/ reqs[r].heard = reqs[r].said
    /\ LET p == PathOf(r)
           found == reqs[r].heard = "success" /\ tmpdir[p] # 0
           o == IF found
                THEN Resolved([NoVal EXCEPT !.form = "filebytes", !.data = <<tmpdir[p]>>])
                ELSE Rejected("NoMessage", "", <<>>)
           c == PairCleanup(r, IF reqs[r].timer = "armed" THEN "cleared" ELSE reqs[r].timer)
       IN  /\ tmpdir' = [tmpdir EXCEPT ![p] = 0]
           /\ reqs' = [reqs EXCEPT ![r] = [c EXCEPT !.st = "closed",
                                                    !.readFrom = IF found THEN @ \cup {p} ELSE @,
                                                    !.outcome = PairSettle(reqs[r], o)]]
    /\ UNCHANGED singleVars

\* part_001 (second), the timer of call r.
PairOnTimeout(r) ==
    /\ variant = "p1bExcel"
    /\ reqs[r].timer = "armed"
    /\ LET c == PairCleanup(r, "fired")
       IN  /\ tmpdir' = [tmpdir EXCEPT ![PathOf(r)] = 0]
           /\ reqs' = [reqs EXCEPT ![r] = [c EXCEPT !.outcome =
                           PairSettle(reqs[r], Rejected("Timeout", "", <<>>))]]
    /\ UNCHANGED singleVars

PairInit ==
    /\ variant \in PairVariants
    /\ reqs = [r \in Requests |-> NoReq]
    /\ tmpdir = [n \in TmpNames |-> 0]
    /\ pc = "idle"
    /\ worker = "none"
    /\ exitCode = 0
    /\ outWritten = <<>>
    /\ errWritten = <<>>
    /\ outPipe = <<>>
    /\ errPipe = <<>>
    /\ pythonOutput = <<>>
    /\ pythonError = <<>>
    /\ hasSuccessMessage = FALSE
    /\ outcome = Pending
    /\ deliveries = 0
    /\ tempFile = FALSE
    /\ outFile = FALSE
    /\ wroteFile = FALSE
    /\ timer = "none"
    /\ killSent = FALSE
    /\ ended = FALSE
    /\ errEvent = FALSE
    /\ uncaught = FALSE
    /\ input = NoInput
    /\ sent = "none"
    /\ releases = 0
    /\ spawns = 0
    /\ processEnv = InitialEnv
    /\ workerEnv = NoEnv
    /\ platform = "linux"
    /\ probeOk = {"python3"}
    /\ venvs = {"srcVenv"}
    /\ libs = [r \in Runtimes |-> IF r \in {"system", "srcVenv"} THEN Requirements ELSE {}]
    /\ envFile = "none"
    /\ optVenv = "none"
    /\ install = NoInstall
    /\ inst = [NoInst EXCEPT !.st = "ok"]
    /\ handles = <<>>
    /\ envChanged = FALSE
    /\ failedHandle = "none"
    /\ marker = TRUE
    /\ installEnv = NoInstallEnv

PairNext ==
    \/ \E r \in Requests, n \in TmpNames : PairCall(r, n)
    \/ \E r \in Requests : PairWorkerRead(r)
    \/ \E r \in Requests : PairWorkerWrite(r)
    \/ \E r \in Requests, s \in {"success", "failure"} : PairWorkerSay(r, s)
    \/ \E r \in Requests : PairWorkerExit(r)
    \/ \E r \in Requests : PairWorkerKilled(r)
    \/ \E r \in Requests : PairOnStdout(r)
    \/ \E r \in Requests : PairOnEnd(r)
    \/ \E r \in Requests : PairOnClose(r)
    \/ \E r \in Requests : PairOnTimeout(r)

\* Two calls on one constructed converter, from the calls to their outcomes.
PairSpec == PairInit /\ [][PairNext]_vars

(***************************************************************************)
(* Vocabulary of the claims                                                *)
(***************************************************************************)
\* A definitive record: a decoded line with an explicit success flag or an
\* explicit error.
Definitive(l) == ParsesAsJSON(l) /\ (l.success # "undef" \/ l.error # "")

RECURSIVE Definitives(_)
Definitives(ls) ==
    IF ls = <<>> THEN <<>>
    ELSE IF Definitive(ls[1]) THEN <<ls[1]>> \o Definitives(Tail(ls))
    ELSE Definitives(Tail(ls))

\* The authoritative record: the last definitive one, NoLine when there is none.
Authoritative(ls) ==
    LET d == Definitives(ls) IN IF d = <<>> THEN NoLine ELSE d[Len(d)]

\* The temp files owned by the request that exist now.
TempFilesExist == tempFile \/ (variant \in TempOutVariants /\ outFile)

\* The worker ran to a clean exit and the end / close callback has run.
CleanEnd == ended /\ worker = "exited" /\ exitCode = 0

C2_TempFilesGoneAtDelivery ==
    [][(outcome.st = "pending" /\ outcome'.st # "pending") => ~TempFilesExist']_vars

(***************************************************************************)
(* C3: a request whose worker blocks forever still returns: while it is    *)
(* pending a deadline timer is armed, and what it returns is the timeout   *)
(* failure, with the worker terminated.                                    *)
(***************************************************************************)
C3_TimeoutLaw ==
    (HostUp /\ worker = "blocked" /\ Drained) =>
        /\ outcome.st = "pending" => timer = "armed"
        /\ (outcome.st # "pending" /\ outWritten = <<>>) =>
               (outcome.kind = "Timeout" /\ killSent)

(***************************************************************************)
(* C4: with more than one definitive record in the worker's output, the    *)
(* last one decides: a last record with success true and no error gives a  *)
(* success, a last record with an error gives a failure.                   *)
(***************************************************************************)
\* The worker exited cleanly, all its output was handled, and nothing but its
\* output (no timer, no spawn error, no escaped exception) settled the request.
DecidedByOutput ==
    /\ HostUp
    /\ CleanEnd
    /\ timer # "fired"

C4_LastDefinitiveWins ==
    (/\ variant \in {"idxBuffer", "idxConvert", "p2Convert", "p1aExcel"}
     /\ DecidedByOutput
     /\ Len(Definitives(outWritten)) > 1
     /\ variant = "p1aExcel" => wroteFile) =>
        LET a == Authoritative(outWritten)
        IN  /\ (a.success = "true" /\ a.error = "") => outcome.st = "resolved"
            /\ a.error # "" => outcome.st = "rejected"

(***************************************************************************)
(* C5: lines that are not structurally valid records (log text, blank      *)
(* lines, JSON without a success / error indicator) are noise: the outcome *)
(* is the one the same output gives with those lines removed.              *)
(***************************************************************************)
Denoised(ls) == Definitives(ls)

\* What the caller can tell of an outcome: settled how, with which value or message.
Told(o) == <<o.st, o.val, o.msg>>

C5_NoiseIgnored ==
    (/\ variant \in {"idxBuffer", "baseRun"}
     /\ DecidedByOutput) =>
        Told(outcome) = IF variant = "idxBuffer"
                        THEN Told(SelectIdx(Denoised(outWritten), pythonError))
                        ELSE Told(SelectBase(Denoised(outWritten)))

(***************************************************************************)
(* C6: the call resolves only if the authoritative record has success      *)
(* true; an authoritative record with success false rejects the call, with *)
(* the record's error message when it has one.                             *)
(***************************************************************************)
C6_FailureRecordRejects ==
    (/\ variant \in {"idxBuffer", "idxConvert", "p2Convert"}
     /\ DecidedByOutput
     /\ Authoritative(outWritten) # NoLine) =>
        LET a == Authoritative(outWritten)
        IN  /\ outcome.st = "resolved" => a.success = "true"
            /\ a.success = "false" => outcome.st = "rejected"
            /\ (a.success = "false" /\ a.error # "") => outcome.msg = a.error

(***************************************************************************)
(* C7: a worker that exits with code zero without a definitive record in   *)
(* its output makes the call fail when its exit is observed: the call is   *)
(* neither resolved nor left pending.                                      *)
(***************************************************************************)
\* The failures the implementations raise for an answerless clean exit (the
\* second convertHtmlToExcel reports the stderr text when there is some).
ProtocolKinds == {"NoValidJson", "NoMessage", "StderrText", "Reported"}

C7_NoRecordIsProtocolViolation ==
    (/\ variant \in {"idxBuffer", "idxConvert", "p1aExcel", "p1bExcel"}
     /\ DecidedByOutput
     /\ Definitives(outWritten) = <<>>) =>
        /\ outcome.st = "rejected"
        /\ outcome.kind \in ProtocolKinds

(***************************************************************************)
(* C8: a worker that exits with a non-zero code without a structurally     *)
(* valid record makes the call fail with the worker-crashed failure, whose *)
(* message holds all the stderr text the worker wrote.                     *)
(***************************************************************************)
CrashKinds == {"PythonError", "ScriptError", "ExitCode"}

C8_CrashCarriesDiagnostics ==
    (/\ variant \in {"idxBuffer", "idxConvert", "p2Convert", "baseRun"}
     /\ HostUp
     /\ ended /\ worker = "exited" /\ exitCode = 1
     /\ Definitives(outWritten) = <<>>) =>
        /\ outcome.st = "rejected"
        /\ outcome.kind \in CrashKinds
        /\ outcome.diag = errWritten

\* A crash after the worker wrote diagnostic text, reported with that text.
C8_Witness ==
    /\ variant \in {"idxBuffer", "baseRun"}
    /\ ended /\ worker = "exited" /\ exitCode = 1
    /\ Definitives(outWritten) = <<>>
    /\ errWritten # <<>>
    /\ outcome.st = "rejected"
    /\ outcome.diag = errWritten

(***************************************************************************)
(* C9: when the result is a file and the worker never wrote it, a success  *)
(* record does not make the call succeed: the call fails.                  *)
(***************************************************************************)
C9_MissingResultFails ==
    (variant \in OutFileVariants /\ ~wroteFile) =>
        /\ outcome.st # "resolved"
        /\ (DecidedByOutput /\ Authoritative(outWritten).success = "true")
              => outcome.st = "rejected"

(***************************************************************************)
(* C10: an in-memory conversion whose worker exits cleanly after a single  *)
(* success record with a data member resolves with the payload of that     *)
(* member.                                                                 *)
(***************************************************************************)
\* Base64: four sextets give three bytes.
RECURSIVE Base64Decode(_)
Base64Decode(sx) ==
    IF Len(sx) < 4 THEN <<>>
    ELSE << sx[1] * 4 + sx[2] \div 16,
            (sx[2] % 16) * 16 + sx[3] \div 4,
            (sx[3] % 4) * 64 + sx[4] >> \o Base64Decode(SubSeq(sx, 5, Len(sx)))

BytesVal(b) == [form |-> "bytes", rec |-> NoLine, data |-> b]

\* The precondition: one definitive record, a success with data, clean exit.
SingleSuccessWithData ==
    /\ variant \in {"idxBuffer", "p2Convert"}
    /\ DecidedByOutput
    /\ Len(Definitives(outWritten)) = 1
    /\ Authoritative(outWritten).success = "true"
    /\ Authoritative(outWritten).data # <<>>

\* As claimed: the caller gets the decoded bytes, and nothing else.
C10_ResolvesDecodedBytes ==
    SingleSuccessWithData =>
        outcome = Resolved(BytesVal(Base64Decode(Authoritative(outWritten).data)))

\* As amended: convertToBuffer resolves with the record itself, part_002's
\* convert with the record's data member; the base64 text is not decoded.
C10_ResolvesRecord ==
    SingleSuccessWithData =>
        outcome = IF variant = "idxBuffer"
                  THEN Resolved(RecordVal(Authoritative(outWritten)))
                  ELSE Resolved(DataVal(Authoritative(outWritten)))

C10_Witness ==
    /\ SingleSuccessWithData
    /\ variant = "idxBuffer"
    /\ Len(outWritten) > 1
    /\ outcome.st = "resolved"
    /\ outcome.val.form = "record"
    /\ outcome.val.data = SampleData

(***************************************************************************)
(* Resolution, installation, transfer and release                          *)
(***************************************************************************)
\* The variants of part_001, whose constructor resolves the runtime.
ResolvingVariants == {"p1aExcel", "p1bExcel"}

\* The names of a sequence.
Range(q) == {q[i] : i \in 1..Len(q)}

\* The libraries of the dependency list that handle h cannot import.
CannotImport(h) == {d \in Range(Deps) : ~Importable(h, d)}

\* C11: when the resolved runtime cannot load one or more of the required
\* libraries, constructing the converter fails with a dependencies-missing
\* error that names every library that is missing, each once (the check goes
\* through the whole list), and a converter whose construction failed never
\* spawns a worker.
C11_AllMissingNamed ==
    /\ [][(variant \in ResolvingVariants /\ inst.st = "none" /\ inst'.st # "none")
            => LET h == handles'[Len(handles')].h
               IN  (h # NotFound /\ CannotImport(h) # {})
                   => /\ inst'.st = "threw"
                      /\ inst'.err = "DepsMissing"
                      /\ Range(inst'.missing) = CannotImport(h)
                      /\ Len(inst'.missing) = Cardinality(CannotImport(h))]_vars
    /\ [](inst.st = "threw" => (worker = "none" /\ pc = "idle" /\ sent = "none"))

\* The check found two libraries missing and two present.
C11_Witness ==
    /\ inst.st = "threw"
    /\ inst.err = "DepsMissing"
    /\ inst.missing = <<"pandas", "cssutils">>

\* The handle the resolver returned in this step.
Returned == handles'[Len(handles')].h

\* The system candidates of the platform that come before command c.
Before(c) ==
    LET cs == Candidates(platform)
    IN  {cs[i] : i \in {j \in 1..Len(cs) : \E k \in (j + 1)..Len(cs) : cs[k] = c}}

\* C12: getPythonCommand returns an executable only if a version probe of it
\* exited cleanly, whatever the source of the candidate (the provisioned
\* virtual environment included); a system candidate it returns is the first
\* in the platform's order whose probe succeeds; it fails with
\* runtime-not-found when no probe succeeds.
C12_ResolverProbes ==
    [][handles' # handles
        => /\ Returned # NotFound => ProbeSucceeds(Returned, probeOk, venvs)
           /\ Returned \in SystemCommands => Before(Returned) \cap probeOk = {}
           /\ Returned = NotFound
                => (Range(Candidates(platform)) \cap probeOk = {} /\ inst'.st # "ok")]_vars

\* The same for the resolver of part_003, which has system candidates only,
\* seen on the machine as the install step left it.
C12_InstallResolverProbes ==
    (install.script = "part_003" /\ inst.st = "none")
        => IF install.cmd = NotFound
           THEN Range(Candidates(platform)) \cap probeOk = {}
           ELSE /\ install.cmd \in probeOk
                /\ Before(install.cmd) \cap probeOk = {}

\* C13: a worker is launched with the interpreter of the location the caller
\* configured (options.venvPath) when there is one, else with the interpreter
\* of the provisioned virtual environment when there is one, else with the
\* first system candidate whose probe succeeds.
C13_ConfiguredRuntimeFirst ==
    worker # "none"
        => PythonPath = IF optVenv # "none" THEN optVenv
                        ELSE IF envFile # "none" THEN envFile
                        ELSE FirstProbed(Candidates(platform), probeOk)

C15_LargePayloadByFile ==
    (variant \in EndVariants /\ worker # "none" /\ input.size >= maxChunkSize)
        => (sent = "none" /\ tempFile)

\* What a request has captured of the worker's output.
CapturedAmount == Len(pythonOutput) + Len(pythonError)

\* C16: what a request has captured of the worker's output never exceeds
\* maxBuffer; a request whose worker writes more is aborted with a failure
\* instead of capturing more.
C16_CaptureBounded ==
    /\ CapturedAmount <= maxBuffer
    /\ (Len(outWritten) + Len(errWritten) > maxBuffer /\ Drained /\ HostUp)
         => outcome.st = "rejected"

\* C17: after an install step that ran and reported no failure, the
\* interpreter the converter of index.js is constructed with is one the step
\* created or verified, it runs, and it has the required libraries.
C17_InstalledRuntimeIsUsed ==
    (/\ install.script \in {"postinstall", "part_004"}
     /\ install.result = "ok"
     /\ install.cmd # "none"
     /\ variant \in {"idxBuffer", "idxConvert"}
     /\ inst.st = "ok")
        => /\ RuntimeOf(PythonPath) = install.made
           /\ ProbeSucceeds(PythonPath, probeOk, venvs)
           /\ Requirements \subseteq libs[RuntimeOf(PythonPath)]

\* The arguments are what the methods require: html a non-empty string and,
\* for index.js convert, outputPath a non-empty string.
WellFormed(a) ==
    /\ a.html = "text"
    /\ (variant = "idxConvert" => a.outputPath = "path")

SpawnFailedHandled ==
    \/ pc = "active" /\ worker = "none" /\ outcome.kind \notin {"Validation", "RuntimeNotFound"}
    \/ worker = "failed" /\ ~errEvent /\ (variant = "baseRun" => ended)

\* C19: the cleanup of a request's temp files is in place before the spawn,
\* so that when the spawn fails right after a file was created (it throws, or
\* only an 'error' event comes) the file is deleted and the request ends with
\* a failure.
C19_CleanupCoversSpawnFailure ==
    SpawnFailedHandled => (~TempFilesExist /\ outcome.st = "rejected" /\ ~uncaught)

\* C20: the release of a request's resources runs exactly once: never a
\* second time, and once on every path that delivers the outcome of a request
\* that had a worker.
C20_ReleaseExactlyOnce ==
    /\ releases <= 1
    /\ (variant \in ResolvingVariants /\ worker # "none" /\ outcome.st # "pending")
         => releases = 1

(***************************************************************************)
(* C21..C30                                                                *)
(***************************************************************************)
\* A release step of the request has failed: the input file is still there
\* after the end callback's unlink, the result file after the close handler's
\* cleanup(), or the worker has no signal on its way after the timer's cleanup().
ReleaseFailedSeen ==
    \/ variant \in {"idxConvert", "p2Convert"} /\ ended /\ tempFile
    \/ variant = "p1bExcel" /\ ended /\ outFile
    \/ variant = "p1bExcel" /\ timer = "fired" /\ Alive /\ ~killSent

\* part_001 (second): the outcome the events of the run determine: the timer
\* that fired, the spawn that failed, or the close with what was seen by then.
P1bDetermined ==
    IF timer = "fired" THEN Rejected("Timeout", "", <<>>)
    ELSE IF worker \in {"none", "failed"} THEN Rejected("SpawnError", "", <<>>)
    ELSE IF hasSuccessMessage /\ wroteFile THEN Resolved(BufferVal)
    ELSE CloseErrP1b(pythonError)

\* Everything cleanup() releases is released already.
AllReleasedP1b ==
    /\ variant = "p1bExcel" /\ releases > 0
    /\ ~outFile /\ timer # "armed" /\ (killSent \/ ~Alive)

\* C21: a failure while releasing resources (the temp file cannot be deleted,
\* the worker cannot be terminated) never reaches the caller and never changes
\* the outcome: the outcome is the one the worker's exit state and output
\* determine, whether the release worked or not; and running the release again
\* when everything is released changes nothing.
C21_ReleaseFailureHarmless ==
    /\ [](outcome.kind # "ReleaseError")
    /\ []((variant = "idxConvert" /\ ended) => outcome = EndOutcomeIdx)
    /\ []((variant = "p2Convert" /\ ended) => outcome = EndOutcomeP2)
    /\ []((variant = "p1bExcel" /\ releases > 0) => outcome = P1bDetermined)
    /\ [][(AllReleasedP1b /\ releases' > releases)
            => UNCHANGED <<outFile, killSent, timer, outcome, deliveries>>]_vars

\* A release step failed and the request has its outcome.
C21_Witness == ReleaseFailedSeen /\ outcome.st # "pending" /\ releases > 0

\* The worker's completion has been observed: the end / close callback ran, or
\* part_001 (first) settled on a message that reports success or an error.
CompletionObserved ==
    \/ ended
    \/ /\ variant = "p1aExcel"
       /\ outcome.st = "resolved" \/ outcome.kind \in {"Reported", "ReadError"}

\* C22: once the worker's completion signal (close / end, or a terminal
\* message) has been observed, the deadline timer is disarmed: it is not left
\* armed, so it cannot fire and terminate or delete afterwards.
C22_TimerDisarmedOnCompletion ==
    (variant \in TimerVariants /\ CompletionObserved) => timer # "armed"

\* C23: the worker has exited (terminated and reaped) before the request's
\* outcome is delivered, on every path: success, worker-reported failure, spawn
\* error and timeout.  A request with an outcome has no live worker.
C23_WorkerExitedBeforeOutcome ==
    outcome.st # "pending" => ~Alive

\* C24: except on timeout, the outcome is decided only after all output the
\* worker produced on both streams has been read: when the outcome is decided
\* nothing the worker wrote is still unread, and nothing more can be written.
C24_OutputReadBeforeOutcome ==
    (outcome.st # "pending" /\ outcome.kind # "Timeout")
        => (Drained /\ worker # "running")

\* C25: once the deadline timer of a request of part_001 (second) has fired,
\* the request's outcome is the timeout failure: the output read before, a
\* success message seen in it and a result file already written are never
\* returned to the caller as a success.
C25_TimeoutDiscardsPartialResult ==
    (variant = "p1bExcel" /\ timer = "fired") => outcome = Rejected("Timeout", "", <<>>)

\* The timer fired on a request whose worker had reported success and written
\* the result file, and the close handler has run since.
C25_Witness ==
    /\ variant = "p1bExcel" /\ timer = "fired"
    /\ hasSuccessMessage /\ wroteFile /\ ended

\* C26: the worker-crashed outcome is produced exactly when the worker exits
\* with a non-zero code and what it wrote holds no structurally valid record;
\* when the worker wrote a definitive failure record and then exited with a
\* non-zero code, the outcome is the worker-reported failure that carries the
\* record's message.
C26_CrashOnlyWithoutRecord ==
    (/\ variant \in {"idxBuffer", "idxConvert", "p2Convert", "baseRun"}
     /\ HostUp
     /\ ended /\ worker = "exited" /\ exitCode = 1) =>
        LET a == Authoritative(outWritten)
        IN  /\ (outcome.kind \in CrashKinds) <=> (a = NoLine)
            /\ (a # NoLine /\ a.error # "") =>
                   (outcome.kind = "Reported" /\ outcome.msg = a.error)

\* C27: each request spawns at most one worker, and the worker it has is the
\* one it spawned: no failure outcome (crash, timeout, protocol violation,
\* worker-reported error) makes the bridge spawn a second worker for the request.
C27_OneWorkerPerRequest ==
    /\ spawns <= 1
    /\ (worker # "none") <=> (spawns = 1)

\* A request whose worker crashed has been rejected.
C27_Witness ==
    /\ spawns = 1 /\ ended
    /\ outcome.st = "rejected" /\ outcome.kind \in CrashKinds

\* C28: running a conversion or the dependency check leaves process.env as it
\* was when the host started; the worker's environment (PYTHONPATH,
\* PYTHONUNBUFFERED, VIRTUAL_ENV, PATH) is a copy made for the call, with the
\* overrides, and passed to the spawn.
C28_ProcessEnvUnchanged ==
    /\ processEnv = InitialEnv
    /\ worker # "none" => workerEnv = Spread(InitialEnv, WorkerEnvOverrides)

\* The constructor of part_001 ran its dependency check, and a conversion
\* spawned a worker with an environment that differs from process.env.
C28_Witness ==
    /\ variant \in {"p1aExcel", "p1bExcel"} /\ inst.st = "ok"
    /\ worker # "none" /\ workerEnv # processEnv
    /\ workerEnv.PATH # processEnv.PATH

\* The outcome call r has when no other call runs: its worker reads r's own
\* input, its handlers find r's own result file.
AloneOutcome(r) ==
    IF variant = "idxConvert"
    THEN IF reqs[r].said = "success"
         THEN Resolved([NoVal EXCEPT !.form = "record", !.data = <<r>>])
         ELSE Rejected("Reported", "", <<>>)
    ELSE IF reqs[r].timer = "fired" THEN Rejected("Timeout", "", <<>>)
    ELSE IF reqs[r].said = "success" /\ reqs[r].wrote
         THEN Resolved([NoVal EXCEPT !.form = "filebytes", !.data = <<r>>])
         ELSE Rejected("NoMessage", "", <<>>)

\* C29: for two requests running at once on the same converter, in any
\* interleaving of their events, the requests use distinct temp files, neither
\* request's handlers delete or read the other's temp file (nor does its worker
\* read the other's input), and each request's outcome is the one it would have
\* had running alone.
C29_ConcurrentRequestsIndependent ==
    /\ \A r, q \in Requests :
          (r # q /\ reqs[r].st # "idle" /\ reqs[q].st # "idle") => PathOf(r) # PathOf(q)
    /\ \A r \in Requests :
          /\ reqs[r].unlinked \subseteq {reqs[r].arg}
          /\ reqs[r].readFrom \subseteq {reqs[r].arg}
          /\ reqs[r].got \in {0, r}
          /\ reqs[r].outcome.st # "pending" => reqs[r].outcome = AloneOutcome(r)

\* One call has resolved and released its file while the other call, made
\* before the first one ended, is still running with its own file in place.
C29_Witness ==
    \E r, q \in Requests :
        /\ r # q
        /\ reqs[r].outcome.st = "resolved" /\ reqs[r].unlinked # {}
        /\ reqs[q].st = "running" /\ tmpdir[PathOf(q)] = q
        /\ reqs[q].ord < reqs[r].ord

\* C30: when a worker invocation failed because the cached runtime can no
\* longer be run, the cached handle is invalidated and the next request
\* resolves the runtime again: the worker of the next request is not launched
\* from the handle that failed unless that handle runs again.
C30_FailedRuntimeReResolved ==
    (failedHandle # "none" /\ worker # "none") =>
        (PythonPath # failedHandle \/ ProbeSucceeds(PythonPath, probeOk, venvs))

(***************************************************************************)
(* The install scripts alone, run any number of times                      *)
(***************************************************************************)
\* scripts/postinstall.js as npm runs it: the decision reads process.env and
\* the machine.
Postinstall(venvOk, pipOk) ==
    /\ installEnv \in InstallEnvs
    /\ InstallPythonDependencies(installEnv.SKIP_PYTHON_INSTALL = "true",
                                 installEnv.FORCE_PYTHON_INSTALL = "true",
                                 installEnv.NODE_ENV = "production",
                                 installEnv.docker, venvOk, pipOk)

\* The package is installed once more, or a script is run by hand, in an
\* environment e; the machine is as the runs before left it.
RunAgain(e) ==
    /\ pc = "idle"
    /\ inst.st = "none"
    /\ install.script # "none"
    /\ install' = NoInstall
    /\ installEnv' = e
    /\ UNCHANGED <<requestVars, pairVars, failedHandle, processEnv, platform, machineVars,
                   optVenv, inst, handles, envChanged>>

\* A machine before the first install step, in any environment.
InstallInit ==
    /\ variant = "p1bExcel"
    /\ pc = "idle"
    /\ worker = "none"
    /\ exitCode = 0
    /\ outWritten = <<>>
    /\ errWritten = <<>>
    /\ outPipe = <<>>
    /\ errPipe = <<>>
    /\ pythonOutput = <<>>
    /\ pythonError = <<>>
    /\ hasSuccessMessage = FALSE
    /\ outcome = Pending
    /\ deliveries = 0
    /\ tempFile = FALSE
    /\ outFile = FALSE
    /\ wroteFile = FALSE
    /\ timer = "none"
    /\ killSent = FALSE
    /\ ended = FALSE
    /\ errEvent = FALSE
    /\ uncaught = FALSE
    /\ input = NoInput
    /\ sent = "none"
    /\ releases = 0
    /\ spawns = 0
    /\ processEnv = InitialEnv
    /\ workerEnv = NoEnv
    /\ platform \in Platforms
    /\ probeOk \in SUBSET SystemCommands
    /\ optVenv = "none"
    /\ venvs = {"custom"}
    /\ libs = [r \in Runtimes |-> IF r = "custom" THEN Requirements ELSE {}]
    /\ envFile = "none"
    /\ install = NoInstall
    /\ inst = NoInst
    /\ handles = <<>>
    /\ envChanged = FALSE
    /\ reqs = <<>>
    /\ tmpdir = <<>>
    /\ failedHandle = "none"
    /\ marker = FALSE
    /\ installEnv \in InstallEnvs

InstallNext ==
    \/ \E venvOk, pipOk \in BOOLEAN : Postinstall(venvOk, pipOk)
    \/ \E venvOk, pipOk, markOk \in BOOLEAN : SetupPythonEnvironment(venvOk, pipOk, markOk)
    \/ \E venvOk, pipOk \in BOOLEAN : InstallVirtualEnv(venvOk, pipOk)
    \/ \E e \in InstallEnvs : RunAgain(e)

InstallSpec == InstallInit /\ [][InstallNext]_vars

(***************************************************************************)
(* C31: once the worker of a request has exited (normally, by a crash or   *)
(* by forced termination), every temp file created for the request is      *)
(* eventually deleted and stays deleted, also when the worker wrote the    *)
(* file after the timeout handler had run its cleanup.                     *)
(***************************************************************************)
C31_TempFilesEventuallyGone ==
    [](worker = "exited" => <>[](~TempFilesExist))

(***************************************************************************)
(* C32: the skip decision of the install step (shouldSkipInstall) is: skip *)
(* when SKIP_PYTHON_INSTALL is 'true', whatever the other settings; else   *)
(* do not skip when FORCE_PYTHON_INSTALL is 'true'; else skip exactly when *)
(* NODE_ENV is 'production' and the machine is not a Docker container.     *)
(* A run that skips runs no probe, creates no virtual environment,         *)
(* installs nothing and writes no file.                                    *)
(***************************************************************************)
\* The decision as the claim words it, over the environment of the run.
SkipExpected ==
    IF installEnv.SKIP_PYTHON_INSTALL = "true" THEN TRUE
    ELSE IF installEnv.FORCE_PYTHON_INSTALL = "true" THEN FALSE
    ELSE installEnv.NODE_ENV = "production" /\ ~installEnv.docker

\* This step is a run of postinstall.js.
PostinstallRuns == install.script = "none" /\ install'.script = "postinstall"

C32_SkipDecision ==
    [][PostinstallRuns =>
          /\ SkipExpected <=> (install'.steps = {})
          /\ SkipExpected =>
                /\ install'.result = "ok" /\ install'.cmd = "none" /\ install'.made = "none"
                /\ UNCHANGED machineVars]_vars

\* A run skipped because of SKIP_PYTHON_INSTALL although FORCE_PYTHON_INSTALL
\* was 'true' as well, on a machine where the install had work to do.
C32_Witness ==
    /\ install.script = "postinstall" /\ install.steps = {}
    /\ installEnv.SKIP_PYTHON_INSTALL = "true"
    /\ installEnv.FORCE_PYTHON_INSTALL = "true"
    /\ "python3" \in probeOk /\ "rootVenv" \notin venvs

(***************************************************************************)
(* C33: setupPythonEnvironment writes the completion marker                *)
(* (.installation_complete) only after the virtual environment was created *)
(* and the requirements were installed, both successfully: a run that      *)
(* fails or is interrupted at any step leaves no marker, and a run that    *)
(* finds the marker performs no creation or installation step.             *)
(***************************************************************************)
\* This step is a run of part_004.
SetupRuns == install.script = "none" /\ install'.script = "part_004"

C33_MarkerOnlyAfterSuccess ==
    [][/\ (~marker /\ marker') =>
              /\ SetupRuns /\ install'.result = "ok"
              /\ {"venv", "pip"} \subseteq install'.steps
              /\ "srcVenv" \in venvs' /\ Requirements \subseteq libs'["srcVenv"]
       /\ (SetupRuns /\ install'.result = "failed") => ~marker'
       /\ (SetupRuns /\ marker) =>
              /\ install'.steps = {} /\ install'.result = "ok"
              /\ UNCHANGED machineVars]_vars

\* A run of part_004 that found the marker an earlier run had written, and
\* did nothing.
C33_Witness ==
    /\ install.script = "part_004" /\ install.steps = {}
    /\ marker /\ "srcVenv" \in venvs

====
